---- MODULE Spec2Model ----
(***************************************************************************)
(* Batch-lifecycle tracking of the execute stage (execute_experiment.py):  *)
(* the persisted tracking table, the execute failed registry, the          *)
(* submission phase with its dedup guard, and the polling loop that        *)
(* reconciles the table with the remote batch API.                         *)
(*                                                                         *)
(* Names (experiments, batch files) are sequences of tokens so that        *)
(* str.startswith and str.split("_prompt") keep their meaning.             *)
(***************************************************************************)
EXTENDS Integers, Sequences, FiniteSets, TLC

----------------------------------------------------------------------------
\* Bounds of the model.

\* Remote jobs the API creates in one behaviour (batch_job.id values 1..MaxJobs).
MaxJobs == 2

\* Times the operator kills the process (KillSpec only).
MaxKills == 1

----------------------------------------------------------------------------
\* The experiment folder: experiments, batch files, config.yaml.

EA == <<"a", "_prompt">>
EB == <<"a", "_prompt", "1">>
Experiments == {EA, EB}

\* Batch files as prepare names them: <experiment>_batch_<index>_<date>.jsonl
FA == <<"a", "_prompt", "_batch_0">>
FB == <<"a", "_prompt", "1", "_batch_0">>

BatchFolder == {FA, FB}

\* Experiments with an entry under config.yaml's "experiments".
ConfigExperiments == {EA, EB}

\* File contents: byte strings that differ in a single byte.
Contents == {<<1, 1>>, <<1, 2>>}

NoName == <<>>

JobIds == 1..MaxJobs

\* Status values the remote API returns (in_progress stands for the
\* non-terminal ones: validating, in_progress, finalizing).
RemoteStatuses == {"in_progress", "completed", "failed", "cancelled", "expired"}

RemoteFinal == {"completed", "failed", "cancelled", "expired"}

Terminal == {"completed", "failed", "cancelled"}

----------------------------------------------------------------------------
\* Pure helpers.

\* str.startswith
StartsWith(name, prefix) ==
    /\ Len(prefix) <= Len(name)
    /\ SubSeq(name, 1, Len(prefix)) = prefix

\* get_batches_for_experiment: the files of the batches folder that start with prefix.
get_batches_for_experiment(prefix) ==
    {f \in BatchFolder : StartsWith(f, prefix)}

\* fname.split("_prompt")[0] + "_prompt", for a name that contains "_prompt".
RECURSIVE PromptPrefix(_)
PromptPrefix(name) ==
    IF name = <<>> THEN <<>>
    ELSE IF Head(name) = "_prompt" THEN <<"_prompt">>
    ELSE <<Head(name)>> \o PromptPrefix(Tail(name))

\* get_experiment_prefixes_from_batches
get_experiment_prefixes_from_batches ==
    {PromptPrefix(f) : f \in {g \in BatchFolder : \E i \in DOMAIN g : g[i] = "_prompt"}}

\* get_file_hash: a digest of the file's bytes (MD5 in the code; here a
\* positional digest, collision-free on Contents as MD5 is in practice).
RECURSIVE Digest(_)
Digest(bytes) ==
    IF bytes = <<>> THEN 0
    ELSE (Digest(SubSeq(bytes, 1, Len(bytes) - 1)) * 256 + bytes[Len(bytes)]) % 65536

get_file_hash(f, cont) == Digest(cont[f])

\* The elements of a sequence.
Range(s) == {s[i] : i \in DOMAIN s}

\* All orders in which a set of names can be listed (os.listdir, set iteration).
Orderings(S) ==
    {s \in [1..Cardinality(S) -> S] : Range(s) = S}

----------------------------------------------------------------------------
\* The tracking store.  A tracking file is [exists, sheet]; the sheet is what
\* DataFrame.to_excel writes: a header and one row of cells per record.  rd
\* says whether pd.read_excel succeeds on the file.

\* The columns of the tracking table.
Columns ==
    <<"experiment_name", "batch_file", "batch_id", "status", "timestamp", "file_hash">>

\* An empty cell.
Blank == [t |-> "blank"]

\* The float NaN that read_excel puts in a field, written here as a value of
\* the field's own kind: every field holds a Python str, and in this model
\* the names are token sequences, the status is a string, and the job id,
\* timestamp and fingerprint are numbers standing for strs that read_excel
\* keeps as they are (they hold a letter and are no missing-value marker).
NaNName == <<"float:nan">>

NaNStatus == "float:nan"

NaNNumber == 0 - 1

\* Strings that read_excel takes for missing values (its default na_values,
\* keep_default_na=True), the empty string among them.
NAStrings == {"", "NA", "N/A", "NULL", "NaN", "n/a", "nan", "null"}

\* The cell DataFrame.to_excel writes for a field: a str is written as a text
\* cell, NaN as an empty cell.
WriteName(v) == IF v = NaNName THEN Blank ELSE [t |-> "s", v |-> v]

WriteStatus(v) == IF v = NaNStatus THEN Blank ELSE [t |-> "s", v |-> v]

WriteNumber(v) == IF v = NaNNumber THEN Blank ELSE [t |-> "s", v |-> v]

\* The field pd.read_excel makes of a cell: an empty cell and a text cell
\* holding a missing-value marker give NaN.
ReadName(cell) ==
    IF cell.t = "blank" THEN NaNName
    ELSE IF cell.v = <<>> \/ (Len(cell.v) = 1 /\ cell.v[1] \in NAStrings) THEN NaNName
    ELSE cell.v

ReadStatus(cell) ==
    IF cell.t = "blank" THEN NaNStatus
    ELSE IF cell.v \in NAStrings THEN NaNStatus
    ELSE cell.v

ReadNumber(cell) ==
    IF cell.t = "blank" THEN NaNNumber ELSE cell.v

\* The rows of cells of a frame's records, in order.
RECURSIVE WriteRows(_)
WriteRows(df) ==
    IF df = <<>> THEN <<>>
    ELSE LET r == Head(df)
         IN  <<[experiment_name |-> WriteName(r.experiment_name),
                batch_file |-> WriteName(r.batch_file),
                batch_id |-> WriteNumber(r.batch_id),
                status |-> WriteStatus(r.status),
                timestamp |-> WriteNumber(r.timestamp),
                file_hash |-> WriteNumber(r.file_hash)]>>
             \o WriteRows(Tail(df))

\* The records of a sheet's rows of cells, in order.
RECURSIVE ReadRows(_)
ReadRows(body) ==
    IF body = <<>> THEN <<>>
    ELSE LET r == Head(body)
         IN  <<[experiment_name |-> ReadName(r.experiment_name),
                batch_file |-> ReadName(r.batch_file),
                batch_id |-> ReadNumber(r.batch_id),
                status |-> ReadStatus(r.status),
                timestamp |-> ReadNumber(r.timestamp),
                file_hash |-> ReadNumber(r.file_hash)]>>
             \o ReadRows(Tail(body))

\* DataFrame.to_excel(file_path, index=False): the header and a row of cells
\* per record.
to_excel(df) == [header |-> Columns, body |-> WriteRows(df)]

\* pd.read_excel: one record per row of cells, a field per header column
\* (the header of every file the program writes is Columns).
read_excel(sheet) == ReadRows(sheet.body)

NoSheet == [header |-> <<>>, body |-> <<>>]

NoTrackingFile == [exists |-> FALSE, sheet |-> NoSheet]

\* load_batch_tracking: the rows, or an empty frame when the file is absent
\* or cannot be read.
load_batch_tracking(F, rd) ==
    IF F.exists /\ rd THEN read_excel(F.sheet) ELSE <<>>

\* save_batch_tracking: full rewrite of the file.
save_batch_tracking(df) == [exists |-> TRUE, sheet |-> to_excel(df)]

\* create_batch_tracking_file
create_batch_tracking_file(F) ==
    IF ~F.exists THEN save_batch_tracking(<<>>) ELSE F

NewRow(e, f, j, h, ts) ==
    [experiment_name |-> e, batch_file |-> f, batch_id |-> j,
     status |-> "submitted", timestamp |-> ts, file_hash |-> h]

\* Faulty variant: the new row is saved without the frame that was loaded.
add_batch_to_tracking_newRowOnly(F, rd, e, f, j, h, ts) ==
    save_batch_tracking(<<NewRow(e, f, j, h, ts)>>)

\* Faulty variant: the fingerprint stored is taken from the file's name, not its bytes.
add_batch_to_tracking_nameHash(F, rd, e, f, j, h, ts) ==
    save_batch_tracking(Append(load_batch_tracking(F, rd), NewRow(e, f, j, Len(f), ts)))

\* add_batch_to_tracking
add_batch_to_tracking(F, rd, e, f, j, h, ts) ==
    save_batch_tracking(Append(load_batch_tracking(F, rd), NewRow(e, f, j, h, ts)))

\* Faulty variant: the assignment lacks the batch_id mask and sets every row's status.
update_batch_status_allRows(F, rd, j, s) ==
    LET df == load_batch_tracking(F, rd)
    IN  save_batch_tracking([i \in DOMAIN df |-> [df[i] EXCEPT !.status = s]])

\* Faulty variant: a completed job is stored as downloaded, the status the
\* pass's filter expects for a finished row.
update_batch_status_downloaded(F, rd, j, s) ==
    LET df == load_batch_tracking(F, rd)
        new == IF s = "completed" THEN "downloaded" ELSE s
    IN  save_batch_tracking(
            [i \in DOMAIN df |->
                IF df[i].batch_id = j THEN [df[i] EXCEPT !.status = new] ELSE df[i]])

\* Faulty variant: the new status is set in the loaded frame and never saved.
update_batch_status_notSaved(F, rd, j, s) == F

\* update_batch_status
update_batch_status(F, rd, j, s) ==
    LET df == load_batch_tracking(F, rd)
    IN  save_batch_tracking(
            [i \in DOMAIN df |->
                IF df[i].batch_id = j THEN [df[i] EXCEPT !.status = s] ELSE df[i]])

\* remove_batch_from_tracking
remove_batch_from_tracking(F, rd, j) ==
    LET df == load_batch_tracking(F, rd)
        Keep(r) == r.batch_id # j
    IN  save_batch_tracking(SelectSeq(df, Keep))

\* cleanup_empty_tracking_file
cleanup_empty_tracking_file(F, rd) ==
    IF F.exists /\ Len(load_batch_tracking(F, rd)) = 0
    THEN NoTrackingFile
    ELSE F

\* Faulty variant: only rows still stored as submitted count as tracked.
get_batches_to_send_submittedOnly(F, rd, e, files, cont) ==
    LET df == load_batch_tracking(F, rd)
    IN  {f \in files :
            ~\E i \in DOMAIN df :
                /\ df[i].experiment_name = e
                /\ df[i].batch_file = f
                /\ df[i].file_hash = get_file_hash(f, cont)
                /\ df[i].status = "submitted"}

\* Faulty variant: no dedup, every candidate file is due.
get_batches_to_send_all(F, rd, e, files, cont) == files

\* Faulty variant: a row of the same experiment and file name counts, whatever its
\* fingerprint.
get_batches_to_send_byName(F, rd, e, files, cont) ==
    LET df == load_batch_tracking(F, rd)
    IN  {f \in files :
            ~\E i \in DOMAIN df :
                /\ df[i].experiment_name = e
                /\ df[i].batch_file = f}

\* get_batches_to_send: the candidate files with no row of the same
\* experiment, file name and fingerprint.
get_batches_to_send(F, rd, e, files, cont) ==
    LET df == load_batch_tracking(F, rd)
    IN  {f \in files :
            ~\E i \in DOMAIN df :
                /\ df[i].experiment_name = e
                /\ df[i].batch_file = f
                /\ df[i].file_hash = get_file_hash(f, cont)}

\* Faulty variant: the filter of get_pending_batches_for_experiment, which also
\* drops rows stored as completed.
PendingRows_skipCompleted(df) ==
    LET Pending(r) == r.status \notin {"completed", "downloaded", "failed"}
    IN  SelectSeq(df, Pending)

\* The rows a pass works on: those not stored as downloaded or failed.
PendingRows(df) ==
    LET Pending(r) == r.status \notin {"downloaded", "failed"}
    IN  SelectSeq(df, Pending)

----------------------------------------------------------------------------
\* The execute failed registry (failed_execute_exp.txt): [exists, lines].

NoRegistry == [exists |-> FALSE, lines |-> <<>>]

\* Faulty variant: the name is appended without looking at the names already listed.
add_failed_experiment_to_list_noDedup(reg, e) ==
    [exists |-> TRUE, lines |-> Append(reg.lines, e)]

\* add_failed_experiment_to_list (save_failed_experiment_info calls it)
add_failed_experiment_to_list(reg, e) ==
    IF e \in Range(reg.lines)
    THEN reg
    ELSE [exists |-> TRUE, lines |-> Append(reg.lines, e)]

\* get_failed_experiments_list
get_failed_experiments_list(reg) ==
    IF reg.exists THEN reg.lines ELSE <<>>

\* Faulty variant: when no name is left the file is neither rewritten nor deleted.
remove_experiment_from_failed_list_keepsLast(reg, e) ==
    IF ~reg.exists THEN reg
    ELSE LET Other(x) == x # e
             updated == SelectSeq(reg.lines, Other)
         IN  IF updated # <<>>
             THEN [exists |-> TRUE, lines |-> updated]
             ELSE reg

\* remove_experiment_from_failed_list
remove_experiment_from_failed_list(reg, e) ==
    IF ~reg.exists THEN reg
    ELSE LET Other(x) == x # e
             updated == SelectSeq(reg.lines, Other)
         IN  IF updated # <<>>
             THEN [exists |-> TRUE, lines |-> updated]
             ELSE NoRegistry

----------------------------------------------------------------------------
\* State.

VARIABLES
    content,        \* bytes of each batch file
    trackFile,      \* results/batch_tracking.xlsx: [exists, rows]
    trackReadable,  \* whether pd.read_excel succeeds on the tracking file
    failedExec,     \* failed_experiments/failed_execute_exp.txt: [exists, lines]
    remote,         \* the remote API's status of each job ("none": not created)
    nextJob,        \* the id the API gives the next job it creates
    results,        \* results files written: the row of each downloaded job
    pc,             \* where the process is
    prefixes,       \* execute_openai: experiments still to submit
    cur,            \* execute_openai: the experiment being submitted
    toSend,         \* execute_openai: batches_to_send not yet tried
    okFlag,         \* execute_openai: experiment_processed_successfully
    queue,          \* the pass's pending_batches not yet visited
    last,           \* history: the row the pass visited last and what it saw
    kills,          \* history: times the process was killed
    failedPrep,     \* failed_experiments/failed_prepare_exp.txt: [exists, lines]
    failedGen,      \* failed_experiments/failed_generateResults.txt: [exists, lines]
    failedDir,      \* whether the failed_experiments directory exists
    config,         \* names with an entry under config.yaml's "experiments"
    first_token_logprobs,  \* generateResults: the first token of a result record
    weighted_sum,       \* generateResults: what calculate_weighted_sum_1_to_7 gave
    prompt_template,    \* prepare: the text of the prompt file
    word_list,          \* prepare: the words loaded from the dataset
    chunk_size,         \* prepare: create_batch_files' chunk_size
    tasks,              \* prepare: what create_openai_tasks returned
    batches,            \* batches/: the task records of each batch file written
    results_files,      \* results/: the result records of each results file
    combined_data       \* generateResults: what process_single_experiment wrote

vars == <<content, trackFile, trackReadable, failedExec, remote, nextJob, results,
          pc, prefixes, cur, toSend, okFlag, queue, last, kills, failedPrep,
          failedGen, failedDir, config, first_token_logprobs, weighted_sum,
          prompt_template, word_list, chunk_size, tasks, batches, results_files,
          combined_data>>

\* The registries, the tracking file and the process position: what the task
\* builder and the result extractor's computations leave alone.
stateVars == <<content, trackFile, trackReadable, failedExec, remote, nextJob, results,
               pc, prefixes, cur, toSend, okFlag, queue, last, kills, failedPrep,
               failedGen, failedDir, config>>

\* The data of the task builder and of the result extractor.
dataVars == <<first_token_logprobs, weighted_sum, prompt_template, word_list, chunk_size,
              tasks, batches, results_files, combined_data>>

\* What the execute stage never writes after its start.
stageVars == <<failedPrep, failedGen, failedDir, config>>

procVars == <<prefixes, cur, toSend, okFlag, queue>>

\* last.seen: the status the query returned ("error": the query raised);
\* last.was: the row's stored status when the pass loaded it; last.wrote:
\* update_batch_status was called; last.got: the output was written;
\* last.inReg: the experiment was in the failed registry when the row was
\* visited.
NoLast ==
    [job |-> 0, exp |-> NoName, seen |-> "none", was |-> "none", wrote |-> FALSE,
     got |-> FALSE, inReg |-> FALSE]


\* No result record was read yet.
NoFirstToken == [keys |-> {}, top_logprobs |-> [type |-> "list", items |-> <<>>]]

\* No record was scored yet.
NotScored == [raised |-> "not called", value |-> 0]

\* No output sheet was written yet.
NoOutput == [written |-> FALSE, experiment |-> <<>>, rows |-> <<>>]

\* Nothing was prepared, downloaded or extracted yet.
NoData ==
    /\ first_token_logprobs = NoFirstToken
    /\ weighted_sum = NotScored
    /\ prompt_template = <<>>
    /\ word_list = <<>>
    /\ chunk_size = 1
    /\ tasks = <<>>
    /\ batches = <<>>
    /\ results_files = {}
    /\ combined_data = NoOutput

\* The experiment folder before any stage ran.
InitStages ==
    /\ content \in [BatchFolder -> Contents]
    /\ trackFile = NoTrackingFile
    /\ trackReadable = TRUE
    /\ failedExec = NoRegistry
    /\ remote = [j \in JobIds |-> "none"]
    /\ nextJob = 1
    /\ results = {}
    /\ pc = "idle"
    /\ prefixes = <<>>
    /\ cur = NoName
    /\ toSend = {}
    /\ okFlag = FALSE
    /\ queue = <<>>
    /\ last = NoLast
    /\ kills = 0
    /\ failedPrep = NoRegistry
    /\ failedGen = NoRegistry
    /\ failedDir = FALSE
    /\ config = ConfigExperiments

Init == InitStages /\ NoData

\* The process is not running: the operator can start a command.
Stopped == pc \in {"idle", "done"}

----------------------------------------------------------------------------
\* Entry points (__main__).

\* The process ends without entering execute_openai or the polling loop.
ExitProcess ==
    /\ pc' = "idle"
    /\ last' = NoLast
    /\ UNCHANGED procVars

\* execute_openai, up to the first experiment: the tracking file is created
\* if it does not exist.
BeginExecute(ps) ==
    /\ trackFile' = create_batch_tracking_file(trackFile)
    /\ prefixes' = ps
    /\ cur' = NoName
    /\ toSend' = {}
    /\ okFlag' = FALSE
    /\ queue' = <<>>
    /\ last' = NoLast
    /\ pc' = "submit"

\* python3 execute_experiment.py <experiment_name> <path>
StartSingle(e) ==
    /\ Stopped
    /\ IF get_batches_for_experiment(e) = {}
       THEN /\ failedExec' = add_failed_experiment_to_list(failedExec, e)
            /\ ExitProcess
            /\ UNCHANGED trackFile
       ELSE IF e \notin config
       THEN /\ ExitProcess
            /\ UNCHANGED <<failedExec, trackFile>>
       ELSE /\ BeginExecute(<<e>>)
            /\ UNCHANGED failedExec
    /\ UNCHANGED <<content, trackReadable, remote, nextJob, results, kills>>
    /\ failedDir' = TRUE
    /\ UNCHANGED <<failedPrep, failedGen, config, dataVars>>

\* python3 execute_experiment.py all <path>
StartAll ==
    /\ Stopped
    /\ \E ps \in Orderings(get_experiment_prefixes_from_batches) :
          IF ps = <<>> \/ ps[1] \notin config
          THEN ExitProcess /\ UNCHANGED trackFile
          ELSE BeginExecute(ps)
    /\ UNCHANGED <<content, trackReadable, failedExec, remote, nextJob, results, kills>>
    /\ failedDir' = TRUE
    /\ UNCHANGED <<failedPrep, failedGen, config, dataVars>>

\* python3 execute_experiment.py failed <path>
StartFailed ==
    /\ Stopped
    /\ LET failed == get_failed_experiments_list(failedExec)
           HasBatches(e) == get_batches_for_experiment(e) # {}
           available == SelectSeq(failed, HasBatches)
       IN  IF available = <<>> \/ available[1] \notin config
           THEN ExitProcess /\ UNCHANGED trackFile
           ELSE BeginExecute(available)
    /\ UNCHANGED <<content, trackReadable, failedExec, remote, nextJob, results, kills>>
    /\ failedDir' = TRUE
    /\ UNCHANGED <<failedPrep, failedGen, config, dataVars>>

\* python3 execute_experiment.py remain <path>: check_and_download_pending_batches_loop
StartRemain ==
    /\ Stopped
    /\ IF ~trackFile.exists
       THEN ExitProcess
       ELSE /\ pc' = "loop"
            /\ last' = NoLast
            /\ UNCHANGED procVars
    /\ UNCHANGED <<content, trackFile, trackReadable, failedExec, remote, nextJob,
                   results, kills>>
    /\ failedDir' = TRUE
    /\ UNCHANGED <<failedPrep, failedGen, config, dataVars>>

----------------------------------------------------------------------------
\* execute_openai: the submission phase.

\* The head of the for loop over experiment_prefixes.
SubmitPrefix ==
    /\ pc = "submit"
    /\ cur = NoName
    /\ prefixes # <<>>
    /\ LET prefix == Head(prefixes)
           batch_files == get_batches_for_experiment(prefix)
           batches_to_send ==
               get_batches_to_send(trackFile, trackReadable, prefix, batch_files, content)
       IN  IF batches_to_send = {}
           THEN /\ failedExec' =
                      IF batch_files # {}
                      THEN remove_experiment_from_failed_list(failedExec, prefix)
                      ELSE failedExec
                /\ UNCHANGED <<cur, toSend, okFlag>>
           ELSE /\ cur' = prefix
                /\ toSend' = batches_to_send
                /\ okFlag' = FALSE
                /\ UNCHANGED failedExec
    /\ prefixes' = Tail(prefixes)
    /\ UNCHANGED <<content, trackFile, trackReadable, remote, nextJob, results, pc,
                   queue, last, kills>>
    /\ UNCHANGED <<stageVars, dataVars>>

\* The registry after the last file of the experiment was tried.
AfterLastFile(reg, prefix, processed) ==
    IF processed THEN remove_experiment_from_failed_list(reg, prefix) ELSE reg

\* One file of batches_to_send: upload and job creation succeed, the job is tracked.
SendFileOk(f) ==
    /\ pc = "submit"
    /\ cur # NoName
    /\ f \in toSend
    /\ nextJob <= MaxJobs
    /\ remote' = [remote EXCEPT ![nextJob] = "in_progress"]
    /\ trackFile' = add_batch_to_tracking(trackFile, trackReadable, cur, f, nextJob,
                                          get_file_hash(f, content), nextJob)
    /\ nextJob' = nextJob + 1
    /\ toSend' = toSend \ {f}
    /\ IF toSend' = {}
       THEN /\ failedExec' = AfterLastFile(failedExec, cur, TRUE)
            /\ cur' = NoName
            /\ okFlag' = FALSE
       ELSE /\ okFlag' = TRUE
            /\ UNCHANGED <<failedExec, cur>>
    /\ UNCHANGED <<content, trackReadable, results, pc, prefixes, queue, last, kills>>
    /\ UNCHANGED <<stageVars, dataVars>>

\* The batch_id arguments of save_failed_experiment_info that are no job
\* ids.  Job ids are numbers in this model; the markers are numbers that the
\* API never returns.
ERROR_SENDING == 0 - 2

NO_BATCH_FILES == 0 - 3

\* Faulty variant: a file whose upload or job creation raised is tracked
\* under the marker id.
SendFileFail_tracksMarker(f) ==
    /\ pc = "submit"
    /\ cur # NoName
    /\ f \in toSend
    /\ toSend' = toSend \ {f}
    /\ trackFile' = add_batch_to_tracking(trackFile, trackReadable, cur, f, ERROR_SENDING,
                                          get_file_hash(f, content), 0)
    /\ LET reg == add_failed_experiment_to_list(failedExec, cur)
       IN  IF toSend' = {}
           THEN /\ failedExec' = AfterLastFile(reg, cur, okFlag)
                /\ cur' = NoName
                /\ okFlag' = FALSE
           ELSE /\ failedExec' = reg
                /\ UNCHANGED <<cur, okFlag>>
    /\ last' = [NoLast EXCEPT !.exp = cur, !.seen = "send_failed"]
    /\ UNCHANGED <<content, trackReadable, remote, nextJob, results, pc,
                   prefixes, queue, kills>>
    /\ UNCHANGED <<stageVars, dataVars>>

\* One file of batches_to_send: the upload or the job creation raises
\* (last.seen records it, for the experiment last.exp).
SendFileFail(f) ==
    /\ pc = "submit"
    /\ cur # NoName
    /\ f \in toSend
    /\ toSend' = toSend \ {f}
    /\ LET reg == add_failed_experiment_to_list(failedExec, cur)
       IN  IF toSend' = {}
           THEN /\ failedExec' = AfterLastFile(reg, cur, okFlag)
                /\ cur' = NoName
                /\ okFlag' = FALSE
           ELSE /\ failedExec' = reg
                /\ UNCHANGED <<cur, okFlag>>
    /\ last' = [NoLast EXCEPT !.exp = cur, !.seen = "send_failed"]
    /\ UNCHANGED <<content, trackFile, trackReadable, remote, nextJob, results, pc,
                   prefixes, queue, kills>>
    /\ UNCHANGED <<stageVars, dataVars>>

\* Every experiment was handled: the polling loop starts.
SubmitDone ==
    /\ pc = "submit"
    /\ cur = NoName
    /\ prefixes = <<>>
    /\ pc' = "loop"
    /\ UNCHANGED <<content, trackFile, trackReadable, failedExec, remote, nextJob,
                   results, prefixes, cur, toSend, okFlag, queue, last, kills>>
    /\ UNCHANGED <<stageVars, dataVars>>

----------------------------------------------------------------------------
\* The reconciliation pass (check_and_download_pending_batches) and the loop.

\* Faulty variant: the row of a completed job is removed although fetching
\* or writing its output raised.
ProcessRow_removesUndownloaded(F, rd, reg, res, row, s, dok, steps) ==
    LET j == row.batch_id
        prefix == row.experiment_name
        changed == s # row.status /\ steps >= 1
        F1 == IF changed
              THEN update_batch_status(F, rd, j, s)
              ELSE F
    IN  IF s = "completed"
        THEN [file |-> IF steps >= 3 THEN remove_batch_from_tracking(F1, rd, j) ELSE F1,
              reg  |-> IF dok /\ steps >= 4
                       THEN remove_experiment_from_failed_list(reg, prefix)
                       ELSE reg,
              res  |-> IF dok /\ steps >= 2 THEN res \cup {[row EXCEPT !.status = s]} ELSE res,
              wrote |-> changed]
        ELSE IF s \in {"failed", "cancelled"}
        THEN [file |-> IF steps >= 3 THEN remove_batch_from_tracking(F1, rd, j) ELSE F1,
              reg  |-> IF steps >= 2 THEN add_failed_experiment_to_list(reg, prefix) ELSE reg,
              res  |-> res,
              wrote |-> changed]
        ELSE [file |-> F1, reg |-> reg, res |-> res, wrote |-> changed]

\* check_and_download_openai_batches, the body of the for loop for one row
\* whose status query returned s, cut after `steps` of its persisted steps
\* (4: the whole body).  The steps: 1 update_batch_status; for completed,
\* 2 the results file is written, 3 remove_batch_from_tracking,
\* 4 remove_experiment_from_failed_list; for failed and cancelled,
\* 2 save_failed_experiment_info, 3 remove_batch_from_tracking.
\* dok: fetching and writing the output succeeds.
ProcessRow(F, rd, reg, res, row, s, dok, steps) ==
    LET j == row.batch_id
        prefix == row.experiment_name
        changed == s # row.status /\ steps >= 1
        F1 == IF changed
              THEN update_batch_status(F, rd, j, s)
              ELSE F
    IN  IF s = "completed"
        THEN IF dok
             THEN [file |-> IF steps >= 3 THEN remove_batch_from_tracking(F1, rd, j) ELSE F1,
                   reg  |-> IF steps >= 4
                            THEN remove_experiment_from_failed_list(reg, prefix)
                            ELSE reg,
                   res  |-> IF steps >= 2 THEN res \cup {[row EXCEPT !.status = s]} ELSE res,
                   wrote |-> changed]
             ELSE [file |-> F1, reg |-> reg, res |-> res, wrote |-> changed]
        ELSE IF s \in {"failed", "cancelled"}
        THEN [file |-> IF steps >= 3 THEN remove_batch_from_tracking(F1, rd, j) ELSE F1,
              reg  |-> IF steps >= 2 THEN add_failed_experiment_to_list(reg, prefix) ELSE reg,
              res  |-> res,
              wrote |-> changed]
        ELSE [file |-> F1, reg |-> reg, res |-> res, wrote |-> changed]

\* check_and_download_pending_batches up to the first row of the for loop.
BeginPass ==
    /\ pc = "loop"
    /\ LET df == load_batch_tracking(trackFile, trackReadable)
           pending_batches == PendingRows(df)
       IN  IF ~trackFile.exists \/ df = <<>>
           THEN /\ pc' = "check"
                /\ UNCHANGED <<trackFile, queue>>
           ELSE IF pending_batches = <<>>
           THEN /\ trackFile' = cleanup_empty_tracking_file(trackFile, trackReadable)
                /\ pc' = "check"
                /\ UNCHANGED queue
           ELSE /\ queue' = pending_batches
                /\ pc' = "pass"
                /\ UNCHANGED trackFile
    /\ last' = NoLast
    /\ UNCHANGED <<content, trackReadable, failedExec, remote, nextJob, results,
                   prefixes, cur, toSend, okFlag, kills>>
    /\ UNCHANGED <<stageVars, dataVars>>

\* The pass moves past the head of the queue; after the last row
\* cleanup_empty_tracking_file runs and the pass returns.
NextRow(F) ==
    /\ queue' = Tail(queue)
    /\ IF queue' = <<>>
       THEN /\ trackFile' = cleanup_empty_tracking_file(F, trackReadable)
            /\ pc' = "check"
       ELSE /\ trackFile' = F
            /\ UNCHANGED pc

\* The pass is at the row of job j.
RowDue(j) ==
    /\ pc = "pass"
    /\ queue # <<>>
    /\ Head(queue).batch_id = j

\* One row of the pass, its status query and (for completed) its download succeed.
RowOk(j) ==
    /\ RowDue(j)
    /\ LET row == Head(queue)
           out == ProcessRow(trackFile, trackReadable, failedExec, results,
                             row, remote[j], TRUE, 4)
       IN  /\ NextRow(out.file)
           /\ failedExec' = out.reg
           /\ results' = out.res
           /\ last' = [job |-> j, exp |-> row.experiment_name, seen |-> remote[j],
                       was |-> row.status, wrote |-> out.wrote,
                       got |-> remote[j] = "completed",
                       inReg |-> row.experiment_name \in Range(failedExec.lines)]
    /\ UNCHANGED <<content, trackReadable, remote, nextJob, prefixes, cur, toSend,
                   okFlag, kills>>
    /\ UNCHANGED <<stageVars, dataVars>>

\* Faulty variant: a status query that raises is handled as a failed job.
RowQueryFail_marksFailed(j) ==
    /\ pc = "pass"
    /\ queue # <<>>
    /\ Head(queue).batch_id = j
    /\ NextRow(update_batch_status(trackFile, trackReadable, j, "failed"))
    /\ failedExec' = add_failed_experiment_to_list(failedExec, Head(queue).experiment_name)
    /\ last' = [job |-> j, exp |-> Head(queue).experiment_name, seen |-> "error",
                was |-> Head(queue).status, wrote |-> FALSE,
                got |-> FALSE,
                inReg |-> Head(queue).experiment_name \in Range(failedExec.lines)]
    /\ UNCHANGED <<content, trackReadable, remote, nextJob, results,
                   prefixes, cur, toSend, okFlag, kills>>
    /\ UNCHANGED <<stageVars, dataVars>>

\* One row of the pass, client.batches.retrieve raises: the row is skipped.
RowQueryFail(j) ==
    /\ pc = "pass"
    /\ queue # <<>>
    /\ Head(queue).batch_id = j
    /\ NextRow(trackFile)
    /\ last' = [job |-> j, exp |-> Head(queue).experiment_name, seen |-> "error",
                was |-> Head(queue).status, wrote |-> FALSE,
                got |-> FALSE,
                inReg |-> Head(queue).experiment_name \in Range(failedExec.lines)]
    /\ UNCHANGED <<content, trackReadable, failedExec, remote, nextJob, results,
                   prefixes, cur, toSend, okFlag, kills>>
    /\ UNCHANGED <<stageVars, dataVars>>

\* One row of the pass, the job is completed and fetching or writing its
\* output raises.
RowDownloadFail(j) ==
    /\ pc = "pass"
    /\ queue # <<>>
    /\ Head(queue).batch_id = j
    /\ remote[j] = "completed"
    /\ LET row == Head(queue)
           out == ProcessRow(trackFile, trackReadable, failedExec, results,
                             row, remote[j], FALSE, 4)
       IN  /\ NextRow(out.file)
           /\ failedExec' = out.reg
           /\ results' = out.res
           /\ last' = [job |-> j, exp |-> row.experiment_name, seen |-> remote[j],
                       was |-> row.status, wrote |-> out.wrote,
                       got |-> FALSE,
                       inReg |-> row.experiment_name \in Range(failedExec.lines)]
    /\ UNCHANGED <<content, trackReadable, remote, nextJob, prefixes, cur, toSend,
                   okFlag, kills>>
    /\ UNCHANGED <<stageVars, dataVars>>

\* Faulty variant: the loop breaks when no row is pending in the sense of
\* get_pending_batches_for_experiment.
LoopCheck_pendingOnly ==
    /\ pc = "check"
    /\ pc' = IF PendingRows_skipCompleted(load_batch_tracking(trackFile, trackReadable)) = <<>>
             THEN "done" ELSE "loop"
    /\ last' = NoLast
    /\ UNCHANGED <<content, trackFile, trackReadable, failedExec, remote, nextJob,
                   results, prefixes, cur, toSend, okFlag, queue, kills>>
    /\ UNCHANGED <<stageVars, dataVars>>

\* The loop's test after a pass: break when the loaded table is empty,
\* else sleep 120 seconds and run the next pass.
LoopCheck ==
    /\ pc = "check"
    /\ pc' = IF load_batch_tracking(trackFile, trackReadable) = <<>> THEN "done" ELSE "loop"
    /\ last' = NoLast
    /\ UNCHANGED <<content, trackFile, trackReadable, failedExec, remote, nextJob,
                   results, prefixes, cur, toSend, okFlag, queue, kills>>
    /\ UNCHANGED <<stageVars, dataVars>>

----------------------------------------------------------------------------
\* The environment.

\* The operator edits a batch file while no process runs.
EditFile(f) ==
    /\ Stopped
    /\ \E c \in Contents \ {content[f]} : content' = [content EXCEPT ![f] = c]
    /\ UNCHANGED <<trackFile, trackReadable, failedExec, remote, nextJob, results, pc,
                   prefixes, cur, toSend, okFlag, queue, last, kills>>
    /\ UNCHANGED <<stageVars, dataVars>>

\* The remote API completes a job.
RemoteComplete(j) ==
    /\ remote[j] = "in_progress"
    /\ remote' = [remote EXCEPT ![j] = "completed"]
    /\ UNCHANGED <<content, trackFile, trackReadable, failedExec, nextJob, results, pc,
                   prefixes, cur, toSend, okFlag, queue, last, kills>>
    /\ UNCHANGED <<stageVars, dataVars>>

\* The remote API fails a job, or the job is cancelled.
RemoteFail(j) ==
    /\ remote[j] = "in_progress"
    /\ \E s \in {"failed", "cancelled"} : remote' = [remote EXCEPT ![j] = s]
    /\ UNCHANGED <<content, trackFile, trackReadable, failedExec, nextJob, results, pc,
                   prefixes, cur, toSend, okFlag, queue, last, kills>>
    /\ UNCHANGED <<stageVars, dataVars>>

\* The remote job reaches completed, failed or cancelled.
RemoteFinish(j) == RemoteComplete(j) \/ RemoteFail(j)

\* The remote API lets a job expire.
RemoteExpire(j) ==
    /\ remote[j] = "in_progress"
    /\ remote' = [remote EXCEPT ![j] = "expired"]
    /\ UNCHANGED <<content, trackFile, trackReadable, failedExec, nextJob, results, pc,
                   prefixes, cur, toSend, okFlag, queue, last, kills>>
    /\ UNCHANGED <<stageVars, dataVars>>

----------------------------------------------------------------------------
\* Specifications.

Submit ==
    \/ SubmitPrefix
    \/ \E f \in BatchFolder : SendFileOk(f)
    \/ \E f \in BatchFolder : SendFileFail(f)
    \/ SubmitDone

Poll ==
    \/ BeginPass
    \/ \E j \in JobIds : RowOk(j)
    \/ \E j \in JobIds : RowQueryFail(j)
    \/ \E j \in JobIds : RowDownloadFail(j)
    \/ LoopCheck

Start ==
    \/ \E e \in Experiments : StartSingle(e)
    \/ StartAll
    \/ StartFailed
    \/ StartRemain

Environment ==
    \/ \E f \in BatchFolder : EditFile(f)
    \/ \E j \in JobIds : RemoteFinish(j)
    \/ \E j \in JobIds : RemoteExpire(j)

\* The operator kills the process (ctrl-C): the files stay as last written.
Killed ==
    /\ pc' = "idle"
    /\ prefixes' = <<>>
    /\ cur' = NoName
    /\ toSend' = {}
    /\ okFlag' = FALSE
    /\ queue' = <<>>
    /\ last' = NoLast

\* Killed between two statements that write nothing (such as in time.sleep).
KillAt ==
    /\ ~Stopped
    /\ Killed
    /\ UNCHANGED <<content, trackFile, trackReadable, failedExec, remote, nextJob,
                   results>>
    /\ UNCHANGED <<stageVars, dataVars>>

\* Killed inside the body of the pass's for loop, after `steps` of the
\* persisted steps of the row at the head of the queue.
KillInRowAt(j, steps) ==
    /\ pc = "pass"
    /\ queue # <<>>
    /\ Head(queue).batch_id = j
    /\ LET out == ProcessRow(trackFile, trackReadable, failedExec, results,
                             Head(queue), remote[j], TRUE, steps)
       IN  /\ trackFile' = out.file
           /\ failedExec' = out.reg
           /\ results' = out.res
    /\ Killed
    /\ UNCHANGED <<content, trackReadable, remote, nextJob>>
    /\ UNCHANGED <<stageVars, dataVars>>

Kill ==
    /\ KillAt
    /\ UNCHANGED kills

Next == Start \/ Submit \/ Poll \/ Environment

\* The process on a reliable disk, left to run until it exits.
Spec == Init /\ [][Next]_vars

\* The runs the dedup claims are about: the operator edits batch files,
\* kills the process (ctrl-C in the polling loop's sleep or elsewhere) and
\* starts it again while rows are still tracked; no remote call fails.
NextDedup ==
    \/ \E e \in Experiments : StartSingle(e)
    \/ StartRemain
    \/ SubmitPrefix
    \/ \E f \in BatchFolder : SendFileOk(f)
    \/ SubmitDone
    \/ BeginPass
    \/ \E j \in JobIds : RowOk(j)
    \/ LoopCheck
    \/ \E f \in BatchFolder : EditFile(f)
    \/ \E j \in JobIds : RemoteComplete(j)
    \/ Kill

DedupSpec == Init /\ [][NextDedup]_vars

----------------------------------------------------------------------------
\* The runs the liveness claims are about: single-experiment and remain
\* runs of the configured experiments, every job finishing remotely, no file
\* edited.
InitLoop ==
    /\ Init
    /\ \A f \in BatchFolder : content[f] = <<1, 1>>

NextLoop ==
    \/ \E e \in ConfigExperiments : StartSingle(e)
    \/ StartRemain
    \/ Submit
    \/ Poll
    \/ \E j \in JobIds : RemoteFinish(j)

\* What the code's control flow and the claims' premises guarantee: the
\* process keeps running, every job finishes remotely, and for every row a
\* status query and download eventually succeed.  The fourth conjunct is
\* SF_vars(RowOk(j)) with its ENABLED written out: RowOk(j) is enabled, and
\* changes queue, exactly when RowDue(j) holds.
Fairness ==
    /\ WF_vars(Submit)
    /\ WF_vars(BeginPass)
    /\ WF_vars(LoopCheck)
    /\ \A j \in JobIds : []<>RowDue(j) => []<><<RowOk(j)>>_vars
    /\ \A j \in JobIds : WF_vars(RemoteFinish(j))

\* The process never killed.
FairSpec == InitLoop /\ [][NextLoop]_vars /\ Fairness

\* A kill that counts against MaxKills.
CountedKill ==
    /\ kills < MaxKills
    /\ kills' = kills + 1
    /\ \/ KillAt
       \/ \E j \in JobIds : \E steps \in 1..3 : KillInRowAt(j, steps)

NextKill == NextLoop \/ CountedKill

\* As FairSpec, the operator killing the process at most MaxKills times and
\* starting the remain loop again afterwards.
KillSpec == InitLoop /\ [][NextKill]_vars /\ Fairness /\ WF_vars(StartRemain)

----------------------------------------------------------------------------
\* Properties.

\* The records in the tracking file, and those in it after the step.
Rows == read_excel(trackFile.sheet)

RowsAfter == read_excel(trackFile'.sheet)

Tracked(j) == \E i \in DOMAIN Rows : Rows[i].batch_id = j

HasRow(df, e, f, h) ==
    \E i \in DOMAIN df :
        /\ df[i].experiment_name = e
        /\ df[i].batch_file = f
        /\ df[i].file_hash = h

\* The rows of df for experiment e and file f.
RowsOf(df, e, f) ==
    {i \in DOMAIN df : df[i].experiment_name = e /\ df[i].batch_file = f}

Occurrences(lines, e) == Cardinality({i \in DOMAIN lines : lines[i] = e})

\* C1: the tracking table never holds two rows with the same
\* (experiment_name, batch_file, file_hash).
C1_UniqueTriple ==
    LET df == Rows
    IN  \A i, k \in DOMAIN df :
            (/\ df[i].experiment_name = df[k].experiment_name
             /\ df[i].batch_file = df[k].batch_file
             /\ df[i].file_hash = df[k].file_hash) => i = k

\* C1's case: a file edited and submitted again, two rows of the same
\* experiment and file tracked, one of them already updated by a pass.
C1_Witness ==
    \E i, k \in DOMAIN Rows :
        /\ i # k
        /\ Rows[i].experiment_name = Rows[k].experiment_name
        /\ Rows[i].batch_file = Rows[k].batch_file
        /\ Rows[i].status # "submitted"

\* C2: get_batches_to_send returns no file that has a row with the same
\* experiment, file name and fingerprint, whatever the candidate files; and
\* in the submission phase no such file is queued for sending, so a run over
\* tracked, unchanged files sends nothing.
C2_DedupIdempotent ==
    LET df == Rows
    IN  /\ \A e \in Experiments : \A files \in SUBSET BatchFolder :
              \A f \in get_batches_to_send(trackFile, trackReadable, e, files, content) :
                  ~HasRow(df, e, f, get_file_hash(f, content))
        /\ pc = "submit" /\ cur # NoName =>
              \A f \in toSend : ~HasRow(df, cur, f, get_file_hash(f, content))

\* C2's case: a second run of EB has gone through its submission phase with
\* its only file tracked and unchanged, and has created no job.
C2_Witness ==
    /\ pc = "submit"
    /\ prefixes = <<>>
    /\ cur = NoName
    /\ nextJob = 2
    /\ Len(Rows) = 1
    /\ Rows[1].experiment_name = EB
    /\ Rows[1].status = "in_progress"
    /\ Rows[1].file_hash = get_file_hash(Rows[1].batch_file, content)

\* The row of the last submission of file f under experiment e.
LatestRow(df, e, f) ==
    df[CHOOSE i \in RowsOf(df, e, f) : \A k \in RowsOf(df, e, f) : k <= i]

\* C3 as claimed: a tracked file whose fingerprint differs from the one
\* stored in its row (the row of its last submission under that experiment)
\* is returned by get_batches_to_send.
C3_ChangedFileIsDue ==
    \A e \in Experiments : \A f \in get_batches_for_experiment(e) :
        (/\ RowsOf(Rows, e, f) # {}
         /\ LatestRow(Rows, e, f).file_hash # get_file_hash(f, content))
        => f \in get_batches_to_send(trackFile, trackReadable, e,
                                     get_batches_for_experiment(e), content)

\* C3 as amended: a tracked file whose fingerprint differs from the one
\* stored in every row of the same experiment and file name is returned by
\* get_batches_to_send.
C3_ChangedFromAllRowsIsDue ==
    LET df == Rows
    IN  \A e \in Experiments : \A f \in get_batches_for_experiment(e) :
            (/\ RowsOf(df, e, f) # {}
             /\ \A i \in RowsOf(df, e, f) : df[i].file_hash # get_file_hash(f, content))
            => f \in get_batches_to_send(trackFile, trackReadable, e,
                                         get_batches_for_experiment(e), content)

\* C3's case: a run queued a file that is tracked under the same experiment
\* and name with another fingerprint.
C3_Witness ==
    /\ pc = "submit"
    /\ cur # NoName
    /\ \E f \in toSend :
          /\ RowsOf(Rows, cur, f) # {}
          /\ \A i \in RowsOf(Rows, cur, f) : Rows[i].file_hash # get_file_hash(f, content)

C5_CompletedIsRemoved ==
    last.seen = "completed" =>
        /\ ~Tracked(last.job)
        /\ last.exp \notin Range(failedExec.lines)

\* C5 as amended: the same, when the output was fetched and written.
C5_DownloadedIsRemoved ==
    last.seen = "completed" /\ last.got =>
        /\ ~Tracked(last.job)
        /\ last.exp \notin Range(failedExec.lines)

\* C5's case: a completed job downloaded while its experiment was in the
\* failed registry.
C5_Witness ==
    /\ last.seen = "completed"
    /\ last.got
    /\ last.inReg

\* C6: after the pass visited a row whose job it saw failed or cancelled,
\* the row is gone from the table and the experiment's name is in the failed
\* registry exactly once.
C6_FailedIsRemovedAndListedOnce ==
    last.seen \in {"failed", "cancelled"} =>
        /\ ~Tracked(last.job)
        /\ Occurrences(failedExec.lines, last.exp) = 1

\* C6's case: a second failure of an experiment already in the registry.
C6_Witness ==
    /\ last.seen \in {"failed", "cancelled"}
    /\ last.inReg

\* C7: when a pass has returned and the table holds no rows, the tracking
\* file does not exist.
C7_NoEmptyTrackingFile ==
    pc = "check" /\ Rows = <<>> => ~trackFile.exists

\* C8: the polling loop, once entered, ends with an empty table, when every
\* remote job reaches completed, failed or cancelled and every status query
\* and download eventually succeeds.
C8_LoopTerminates ==
    (pc = "loop") ~> (pc = "done" /\ Rows = <<>>)

\* C8's case: the loop ended after one job completed and another failed.
C8_Witness ==
    /\ pc = "done"
    /\ Rows = <<>>
    /\ \E j, k \in JobIds :
          remote[j] = "completed" /\ remote[k] \in {"failed", "cancelled"}

C10_Resumable ==
    \A j \in JobIds : (Tracked(j) /\ remote[j] \in Terminal) ~> ~Tracked(j)

\* C11: a status query that raises leaves the row's stored fields and the
\* failed registry as they were, the pass goes on with the rows after it
\* (or returns when it was the last), the row is still one a pass works on,
\* and a later pass queries it again.
C11_QueryFailureSkipsRow ==
    /\ [][(last'.seen = "error" /\ last' # last) =>
            /\ trackFile'.exists
            /\ \E i \in DOMAIN Rows :
                  /\ Rows[i].batch_id = last'.job
                  /\ i \in DOMAIN RowsAfter
                  /\ RowsAfter[i] = Rows[i]
            /\ failedExec' = failedExec
            /\ queue # <<>>
            /\ queue' = Tail(queue)
            /\ pc' = IF queue' = <<>> THEN "check" ELSE "pass"
            /\ \E r \in Range(PendingRows(load_batch_tracking(trackFile', trackReadable'))) :
                  r.batch_id = last'.job]_vars
    /\ \A j \in JobIds :
          (last.seen = "error" /\ last.job = j)
              ~> (pc = "pass" /\ queue # <<>> /\ Head(queue).batch_id = j
                  /\ last.job # j)

\* C11's case: the query of the first of two rows raised and the pass is at
\* the second row.
C11_Witness ==
    /\ pc = "pass"
    /\ last.seen = "error"
    /\ queue # <<>>
    /\ Head(queue).batch_id # last.job

\* C12: after a status query that returned a status other than completed,
\* failed or cancelled, the row is in the table with that status stored, and
\* update_batch_status was called exactly when the status differed from the
\* one the pass had loaded.
C12_StatusMirrored ==
    last.seen \in RemoteStatuses \ Terminal =>
        /\ \E i \in DOMAIN Rows :
              /\ Rows[i].batch_id = last.job
              /\ Rows[i].status = last.seen
        /\ last.wrote <=> last.seen # last.was

\* C12's case: a pass found the status it had stored in an earlier pass and
\* rewrote nothing.
C12_Witness ==
    /\ last.seen = "in_progress"
    /\ last.was = "in_progress"
    /\ ~last.wrote
    /\ Tracked(last.job)

\* C13: the stored status of every row is submitted or a status the remote
\* API has had for the row's job, and a step writes a status into a row only
\* as submitted for a new row, or as the status the query of that row's job
\* returned in that step of the pass.
C13_StatusFromRemote ==
    /\ [](\A i \in DOMAIN Rows :
             Rows[i].status \in {"submitted", "in_progress", remote[Rows[i].batch_id]})
    /\ [][\A i \in DOMAIN RowsAfter :
             LET r == RowsAfter[i]
             IN  \/ r \in Range(Rows)
                 \/ r.status = "submitted" /\ ~Tracked(r.batch_id)
                 \/ /\ pc = "pass"
                    /\ queue # <<>>
                    /\ r.batch_id = Head(queue).batch_id
                    /\ r.status = remote[r.batch_id]]_vars

\* C13's case: rows whose stored status a pass has written, one of them an
\* expired job's.
C13_Witness ==
    /\ Len(Rows) = 2
    /\ Rows[1].status = "expired"
    /\ Rows[2].status = "in_progress"

\* C14: a step that tracks a new job leaves the file holding the records it
\* held, in their order and unchanged, followed by exactly one new record:
\* the experiment being submitted, the file sent, the job's id, status
\* submitted and the digest of the file's bytes.
C14_AddAppendsOne ==
    [][nextJob' # nextJob =>
          /\ trackFile'.exists
          /\ \E f \in toSend \ toSend' :
                RowsAfter = Append(Rows,
                    [experiment_name |-> cur, batch_file |-> f, batch_id |-> nextJob,
                     status |-> "submitted",
                     timestamp |-> RowsAfter[Len(RowsAfter)].timestamp,
                     file_hash |-> Digest(content[f])])]_vars

\* C14's case: a record was added behind one that a pass had already updated.
C14_Witness ==
    /\ Len(Rows) = 2
    /\ Rows[1].status = "in_progress"
    /\ Rows[2].status = "submitted"
    /\ Rows[2].batch_id = 2

----------------------------------------------------------------------------
\* The tracking store on its own: frames of up to MaxJobs records as the
\* program builds them, saved, and then updated or pruned by job id.  queue
\* holds the frame in memory, last the arguments of the operation applied.

\* A record is appended to the frame in memory.
BuildFrame(e, f, s) ==
    /\ pc \in {"idle", "frame"}
    /\ Len(queue) < MaxJobs
    /\ LET j == Len(queue) + 1
       IN  queue' = Append(queue,
                       [NewRow(e, f, j, Digest(<<1, 1>>), j) EXCEPT !.status = s])
    /\ pc' = "frame"
    /\ UNCHANGED <<content, trackFile, trackReadable, failedExec, remote, nextJob,
                   results, prefixes, cur, toSend, okFlag, last, kills>>
    /\ UNCHANGED <<stageVars, dataVars>>

\* save_batch_tracking of the frame in memory.
SaveFrame ==
    /\ pc \in {"idle", "frame"}
    /\ trackFile' = save_batch_tracking(queue)
    /\ pc' = "saved"
    /\ UNCHANGED <<content, trackReadable, failedExec, remote, nextJob, results,
                   prefixes, cur, toSend, okFlag, queue, last, kills>>
    /\ UNCHANGED <<stageVars, dataVars>>

\* update_batch_status on the saved file.
UpdateSaved(j, s) ==
    /\ pc = "saved"
    /\ trackFile' = update_batch_status(trackFile, trackReadable, j, s)
    /\ last' = [NoLast EXCEPT !.job = j, !.seen = s]
    /\ pc' = "updated"
    /\ UNCHANGED <<content, trackReadable, failedExec, remote, nextJob, results,
                   prefixes, cur, toSend, okFlag, queue, kills>>
    /\ UNCHANGED <<stageVars, dataVars>>

\* remove_batch_from_tracking on the saved file.
RemoveSaved(j) ==
    /\ pc = "saved"
    /\ trackFile' = remove_batch_from_tracking(trackFile, trackReadable, j)
    /\ last' = [NoLast EXCEPT !.job = j]
    /\ pc' = "removed"
    /\ UNCHANGED <<content, trackReadable, failedExec, remote, nextJob, results,
                   prefixes, cur, toSend, okFlag, queue, kills>>
    /\ UNCHANGED <<stageVars, dataVars>>

NextStore ==
    \/ \E e \in Experiments : \E f \in get_batches_for_experiment(e) :
          \E s \in {"submitted"} \cup RemoteStatuses : BuildFrame(e, f, s)
    \/ SaveFrame
    \/ \E j \in JobIds : \E s \in RemoteStatuses : UpdateSaved(j, s)
    \/ \E j \in JobIds : RemoveSaved(j)

StoreSpec == InitLoop /\ [][NextStore]_vars

\* An experiment whose name is a string read_excel takes for a missing value
\* (python3 execute_experiment.py NA <path>), and its batch file.
ENA == <<"NA">>
FNA == <<"NA", "_batch_0">>

\* Frames over every kind of experiment name, saved.
NextRoundTrip ==
    \/ \E e \in Experiments : \E f \in get_batches_for_experiment(e) :
          \E s \in {"submitted"} \cup RemoteStatuses : BuildFrame(e, f, s)
    \/ \E s \in {"submitted"} \cup RemoteStatuses : BuildFrame(ENA, FNA, s)
    \/ SaveFrame

RoundTripSpec == InitLoop /\ [][NextRoundTrip]_vars

\* C15: update_batch_status keeps the number and order of the records,
\* changes only the status of those with the given batch_id and nothing of
\* the others; remove_batch_from_tracking deletes the records with the given
\* batch_id and keeps the others unchanged and in order.
C15_UpdateRemoveFrame ==
    LET j == last.job
        Others == {i \in DOMAIN queue : queue[i].batch_id # j}
        Other(r) == r.batch_id # j
    IN  /\ pc = "updated" =>
              /\ trackFile.exists
              /\ Len(Rows) = Len(queue)
              /\ \A i \in Others : Rows[i] = queue[i]
              /\ \A i \in DOMAIN queue \ Others :
                    /\ Rows[i].status = last.seen
                    /\ \A c \in Range(Columns) \ {"status"} : Rows[i][c] = queue[i][c]
        /\ pc = "removed" =>
              /\ trackFile.exists
              /\ Rows = SelectSeq(queue, Other)
              /\ Len(Rows) = Cardinality(Others)

\* C15's case: of two saved records with different statuses, the second was
\* given a new status.
C15_Witness ==
    /\ pc = "updated"
    /\ Len(queue) = 2
    /\ last.job = 2
    /\ queue[1].status = "completed"
    /\ queue[2].status = "in_progress"
    /\ last.seen = "failed"

\* C16: a frame of zero or more records, saved and loaded back, has the same
\* number of records, each with the six columns and the same value in each.
C16_RoundTrip ==
    pc = "saved" =>
        LET df == load_batch_tracking(trackFile, trackReadable)
        IN  /\ trackFile.exists
            /\ Len(df) = Len(queue)
            /\ \A i \in DOMAIN queue :
                  /\ DOMAIN df[i] = Range(Columns)
                  /\ \A c \in Range(Columns) : df[i][c] = queue[i][c]

----------------------------------------------------------------------------
\* The prepare stage (prepare_experiment.py) and its failed registry
\* (failed_prepare_exp.txt): reg is the registry file, dir whether the
\* failed_experiments directory exists, others whether the directory holds
\* another file.

\* load_failed_experiments
load_failed_experiments(reg) ==
    IF reg.exists THEN reg.lines ELSE <<>>

\* Faulty variant: for an empty list the directory is removed with whatever
\* it holds.
save_failed_experiments_removesDirectory(failed_list, reg, dir, others) ==
    IF failed_list = <<>>
    THEN [reg |-> NoRegistry, dir |-> FALSE]
    ELSE IF dir
    THEN [reg |-> [exists |-> TRUE, lines |-> failed_list], dir |-> TRUE]
    ELSE [reg |-> reg, dir |-> FALSE]

\* save_failed_experiments: an empty list removes the file, and the
\* directory too when nothing else is in it; for any other list the file is
\* rewritten, and when the directory is missing open() raises, which is
\* caught and printed.
save_failed_experiments(failed_list, reg, dir, others) ==
    IF failed_list = <<>>
    THEN [reg |-> NoRegistry, dir |-> dir /\ others]
    ELSE IF dir
    THEN [reg |-> [exists |-> TRUE, lines |-> failed_list], dir |-> TRUE]
    ELSE [reg |-> reg, dir |-> FALSE]

\* list.remove: the first occurrence goes.
RECURSIVE ListRemove(_, _)
ListRemove(l, x) ==
    IF l = <<>> THEN <<>>
    ELSE IF Head(l) = x THEN Tail(l)
    ELSE <<Head(l)>> \o ListRemove(Tail(l), x)

\* update_failed_experiments
update_failed_experiments(e, success, reg, dir, others) ==
    LET failed_experiments == load_failed_experiments(reg)
        updated == IF success /\ e \in Range(failed_experiments)
                   THEN ListRemove(failed_experiments, e)
                   ELSE IF ~success /\ e \notin Range(failed_experiments)
                   THEN Append(failed_experiments, e)
                   ELSE failed_experiments
    IN  save_failed_experiments(updated, reg, dir, others)

\* The batch file create_batch_files writes for an experiment.
BatchFileOf(e) == e \o <<"_batch_0">>

\* process_experiment and update_failed_experiments for one experiment, the
\* directory being dir: on success the experiment's batch file is written.
\* last.seen is the outcome.
PrepareOne(e, success, dir) ==
    /\ LET out == update_failed_experiments(e, success, failedPrep, dir,
                                            failedExec.exists \/ failedGen.exists)
       IN  /\ failedPrep' = out.reg
           /\ failedDir' = out.dir
    /\ IF success
       THEN \E c \in Contents : content' = [content EXCEPT ![BatchFileOf(e)] = c]
       ELSE UNCHANGED content
    /\ last' = [NoLast EXCEPT !.exp = e,
                              !.seen = IF success THEN "prepared" ELSE "prepare_failed"]

\* python prepare_experiment.py <experiment_name> <path>
PrepareSingle(e) ==
    /\ Stopped
    /\ IF e \notin config
       THEN /\ failedDir' = TRUE
            /\ last' = NoLast
            /\ UNCHANGED <<failedPrep, content>>
       ELSE \E success \in BOOLEAN : PrepareOne(e, success, TRUE)
    /\ pc' = "idle"
    /\ UNCHANGED <<trackFile, trackReadable, failedExec, remote, nextJob, results,
                   prefixes, cur, toSend, okFlag, queue, kills, failedGen, config>>
    /\ UNCHANGED dataVars

\* python prepare_experiment.py all <path>: the failed experiments first,
\* then the other keys of config.yaml.
StartPrepareAll ==
    /\ Stopped
    /\ LET failed_experiments == load_failed_experiments(failedPrep)
       IN  IF config = {}
           THEN UNCHANGED <<pc, prefixes>>
           ELSE /\ \E remaining \in Orderings(config \ Range(failed_experiments)) :
                      prefixes' = failed_experiments \o remaining
                /\ pc' = "prepare"
    /\ failedDir' = TRUE
    /\ last' = NoLast
    /\ UNCHANGED <<content, trackFile, trackReadable, failedExec, remote, nextJob,
                   results, cur, toSend, okFlag, queue, kills, failedPrep, failedGen,
                   config>>
    /\ UNCHANGED dataVars

\* python prepare_experiment.py failed <path>
StartPrepareFailed ==
    /\ Stopped
    /\ LET failed_experiments == load_failed_experiments(failedPrep)
       IN  IF config = {} \/ failed_experiments = <<>>
           THEN UNCHANGED <<pc, prefixes>>
           ELSE /\ prefixes' = failed_experiments
                /\ pc' = "prepare"
    /\ failedDir' = TRUE
    /\ last' = NoLast
    /\ UNCHANGED <<content, trackFile, trackReadable, failedExec, remote, nextJob,
                   results, cur, toSend, okFlag, queue, kills, failedPrep, failedGen,
                   config>>
    /\ UNCHANGED dataVars

\* process_multiple_experiments, one turn of the for loop: a name that is
\* not in config.yaml is skipped.
PrepareNext ==
    /\ pc = "prepare"
    /\ prefixes # <<>>
    /\ LET experiment_name == Head(prefixes)
       IN  IF experiment_name \notin config
           THEN /\ last' = [NoLast EXCEPT !.exp = experiment_name, !.seen = "skipped"]
                /\ UNCHANGED <<failedPrep, failedDir, content>>
           ELSE \E success \in BOOLEAN : PrepareOne(experiment_name, success, failedDir)
    /\ prefixes' = Tail(prefixes)
    /\ UNCHANGED <<trackFile, trackReadable, failedExec, remote, nextJob, results, pc,
                   cur, toSend, okFlag, queue, kills, failedGen, config>>
    /\ UNCHANGED dataVars

\* process_multiple_experiments after the last name: the summary is printed.
PrepareDone ==
    /\ pc = "prepare"
    /\ prefixes = <<>>
    /\ pc' = "idle"
    /\ UNCHANGED <<content, trackFile, trackReadable, failedExec, remote, nextJob,
                   results, prefixes, cur, toSend, okFlag, queue, last, kills,
                   failedPrep, failedGen, failedDir, config>>
    /\ UNCHANGED dataVars

\* The operator adds or removes an experiment's entry in config.yaml while
\* no process runs.
EditConfig(e) ==
    /\ Stopped
    /\ config' = IF e \in config THEN config \ {e} ELSE config \cup {e}
    /\ UNCHANGED <<content, trackFile, trackReadable, failedExec, remote, nextJob,
                   results, pc, prefixes, cur, toSend, okFlag, queue, last, kills,
                   failedPrep, failedGen, failedDir>>
    /\ UNCHANGED dataVars

Prepare ==
    \/ \E e \in Experiments : PrepareSingle(e)
    \/ StartPrepareAll
    \/ StartPrepareFailed
    \/ PrepareNext
    \/ PrepareDone

\* Runs of the prepare stage on a folder whose config.yaml lists the
\* experiments.
PrepareSpec == Init /\ [][Prepare]_vars

\* C17: after the prepare stage processed an experiment, the experiment is
\* in the prepare failed registry if and only if that attempt failed.
C17_PrepareRegistryIffFailed ==
    last.seen \in {"prepared", "prepare_failed"} =>
        (last.exp \in Range(load_failed_experiments(failedPrep))
            <=> last.seen = "prepare_failed")

\* C18: once the submission phase of an experiment is over, an experiment
\* for which the upload or the job creation of at least one due batch file
\* failed is in the execute failed registry, whatever happened to its other
\* batch files.
C18_FailedUploadListed ==
    (pc = "submit" /\ last.seen = "send_failed" /\ cur # last.exp) =>
        last.exp \in Range(get_failed_experiments_list(failedExec))

----------------------------------------------------------------------------
\* Runs of the prepare and execute stages on a folder whose config.yaml the
\* operator edits between runs; the operator stops the polling loop.
NextConfig ==
    \/ Start
    \/ Submit
    \/ Prepare
    \/ \E e \in Experiments : EditConfig(e)
    \/ Kill

ConfigSpec == Init /\ [][NextConfig]_vars

\* The step ends the execute stage's handling of experiment e, and the run
\* goes on.
SubmissionEnds(e) ==
    /\ pc = "submit"
    /\ pc' = "submit"
    /\ cur' = NoName
    /\ \/ cur = e
       \/ cur = NoName /\ prefixes # <<>> /\ Head(prefixes) = e /\ prefixes' = Tail(prefixes)

\* The step ends the prepare stage's handling of experiment e in an 'all' or
\* 'failed' run, and the run goes on.
PreparationEnds(e) ==
    /\ pc = "prepare"
    /\ pc' = "prepare"
    /\ prefixes # <<>>
    /\ Head(prefixes) = e
    /\ prefixes' = Tail(prefixes)

\* C19: in a run over several experiments, when the stage is through with
\* an experiment that has no entry in config.yaml, the experiment is in the
\* stage's failed registry (the run going on with the other experiments).
C19_NoConfigEntryIsListed ==
    [][\A e \in Experiments :
          /\ (SubmissionEnds(e) /\ e \notin config) =>
                 e \in Range(get_failed_experiments_list(failedExec'))
          /\ (PreparationEnds(e) /\ e \notin config) =>
                 e \in Range(load_failed_experiments(failedPrep'))]_vars

----------------------------------------------------------------------------
\* The generate-results stage's failed registry (failed_generateResults.txt).

\* get_failed_experiments
get_failed_experiments(reg) ==
    IF reg.exists THEN reg.lines ELSE <<>>

\* Faulty variant: the name is appended without looking at the names already listed.
add_failed_experiment_noDedup(reg, e) ==
    [exists |-> TRUE, lines |-> Append(get_failed_experiments(reg), e)]

\* add_failed_experiment: the file is rewritten with the name appended when
\* the name is not listed.
add_failed_experiment(reg, e) ==
    LET failed_experiments == get_failed_experiments(reg)
    IN  IF e \notin Range(failed_experiments)
        THEN [exists |-> TRUE, lines |-> Append(failed_experiments, e)]
        ELSE reg

\* Faulty variant: when no name is left the file is rewritten, empty.
remove_failed_experiment_writesEmpty(reg, e) ==
    IF ~reg.exists THEN reg
    ELSE LET Other(x) == x # e
         IN  [exists |-> TRUE, lines |-> SelectSeq(reg.lines, Other)]

\* remove_failed_experiment
remove_failed_experiment(reg, e) ==
    IF ~reg.exists THEN reg
    ELSE LET Other(x) == x # e
             failed_experiments == SelectSeq(reg.lines, Other)
         IN  IF failed_experiments = <<>>
             THEN NoRegistry
             ELSE [exists |-> TRUE, lines |-> failed_experiments]

----------------------------------------------------------------------------
\* The three registries on their own: the add and remove operations of the
\* stages, applied in any order to registries that start absent.  last holds
\* the operation applied, its experiment, and whether the experiment was
\* listed in that registry before.

\* The operation op on experiment e, listed or not in lines before.
Operation(op, e, lines) ==
    [NoLast EXCEPT !.seen = op, !.exp = e, !.inReg = e \in Range(lines)]

\* ensure_experiment_directories, which every stage calls when it starts.
EnsureDirectories ==
    /\ pc = "idle"
    /\ ~failedDir
    /\ failedDir' = TRUE
    /\ UNCHANGED <<content, trackFile, trackReadable, failedExec, remote, nextJob,
                   results, pc, prefixes, cur, toSend, okFlag, queue, last, kills,
                   failedPrep, failedGen, config>>
    /\ UNCHANGED dataVars

\* add_failed_experiment_to_list
ExecuteAdd(e) ==
    /\ pc = "idle"
    /\ failedExec' = add_failed_experiment_to_list(failedExec, e)
    /\ failedDir' = TRUE
    /\ last' = Operation("execute_add", e, failedExec.lines)
    /\ UNCHANGED <<content, trackFile, trackReadable, remote, nextJob, results, pc,
                   prefixes, cur, toSend, okFlag, queue, kills, failedPrep, failedGen,
                   config>>
    /\ UNCHANGED dataVars

\* remove_experiment_from_failed_list
ExecuteRemove(e) ==
    /\ pc = "idle"
    /\ failedExec' = remove_experiment_from_failed_list(failedExec, e)
    /\ last' = Operation("execute_remove", e, failedExec.lines)
    /\ UNCHANGED <<content, trackFile, trackReadable, remote, nextJob, results, pc,
                   prefixes, cur, toSend, okFlag, queue, kills, failedPrep, failedGen,
                   failedDir, config>>
    /\ UNCHANGED dataVars

\* update_failed_experiments: an add when success is false, a remove otherwise.
PrepareUpdate(e, success) ==
    /\ pc = "idle"
    /\ LET out == update_failed_experiments(e, success, failedPrep, failedDir,
                                            failedExec.exists \/ failedGen.exists)
       IN  /\ failedPrep' = out.reg
           /\ failedDir' = out.dir
    /\ last' = Operation(IF success THEN "prepare_remove" ELSE "prepare_add", e,
                         failedPrep.lines)
    /\ UNCHANGED <<content, trackFile, trackReadable, failedExec, remote, nextJob,
                   results, pc, prefixes, cur, toSend, okFlag, queue, kills, failedGen,
                   config>>
    /\ UNCHANGED dataVars

\* add_failed_experiment, in a process that made the directory at its start.
GenerateAdd(e) ==
    /\ pc = "idle"
    /\ failedDir
    /\ failedGen' = add_failed_experiment(failedGen, e)
    /\ last' = Operation("generate_add", e, failedGen.lines)
    /\ UNCHANGED <<content, trackFile, trackReadable, failedExec, remote, nextJob,
                   results, pc, prefixes, cur, toSend, okFlag, queue, kills, failedPrep,
                   failedDir, config>>
    /\ UNCHANGED dataVars

\* remove_failed_experiment
GenerateRemove(e) ==
    /\ pc = "idle"
    /\ failedGen' = remove_failed_experiment(failedGen, e)
    /\ last' = Operation("generate_remove", e, failedGen.lines)
    /\ UNCHANGED <<content, trackFile, trackReadable, failedExec, remote, nextJob,
                   results, pc, prefixes, cur, toSend, okFlag, queue, kills, failedPrep,
                   failedDir, config>>
    /\ UNCHANGED dataVars

NextRegistry ==
    \/ EnsureDirectories
    \/ \E e \in Experiments : ExecuteAdd(e)
    \/ \E e \in Experiments : ExecuteRemove(e)
    \/ \E e \in Experiments : \E success \in BOOLEAN : PrepareUpdate(e, success)
    \/ \E e \in Experiments : GenerateAdd(e)
    \/ \E e \in Experiments : GenerateRemove(e)

RegistrySpec == InitLoop /\ [][NextRegistry]_vars

\* C20: in each of the three registries, which start absent, no experiment
\* name occurs more than once, whatever adds and removes were applied.
C20_NoDuplicateNames ==
    \A e \in Experiments :
        /\ Occurrences(load_failed_experiments(failedPrep), e) <= 1
        /\ Occurrences(get_failed_experiments_list(failedExec), e) <= 1
        /\ Occurrences(get_failed_experiments(failedGen), e) <= 1

\* C20's case: a name was added to the generate-results registry that
\* already listed it after another name, the other two registries listing
\* names as well.
C20_Witness ==
    /\ last.seen = "generate_add"
    /\ last.exp = EB
    /\ last.inReg
    /\ failedGen.lines = <<EA, EB>>
    /\ failedExec.lines = <<EB>>
    /\ failedPrep.lines = <<EB, EA>>

\* C21: after any add or remove on a stage's failed registry, the registry
\* file is absent or lists at least one experiment name, so that a remove
\* taking the last name away leaves no file.
C21_NoEmptyRegistryFile ==
    /\ failedExec.exists => get_failed_experiments_list(failedExec) # <<>>
    /\ failedPrep.exists => load_failed_experiments(failedPrep) # <<>>
    /\ failedGen.exists => get_failed_experiments(failedGen) # <<>>

\* C21's case: the only name of the generate-results registry was removed
\* and the file is gone, while the other two registries still list names.
C21_Witness ==
    /\ last.seen = "generate_remove"
    /\ last.exp = EB
    /\ last.inReg
    /\ ~failedGen.exists
    /\ failedExec.lines = <<EA>>
    /\ failedPrep.lines = <<EA, EB>>

\* os.path.exists of a registry file: the file is there and so is the
\* failed_experiments directory that holds it.
OnDisk(reg, dir) == dir /\ reg.exists

\* The registry file is as it was: it exists as before and holds the same lines.
Untouched(reg, dir, regAfter, dirAfter) ==
    /\ OnDisk(regAfter, dirAfter) = OnDisk(reg, dir)
    /\ regAfter.lines = reg.lines

\* C22: an add or a remove on one stage's failed registry leaves the other
\* two stages' registry files as they were, in existence and in contents.
C22_OtherRegistriesUntouched ==
    [][/\ last'.seen \in {"execute_add", "execute_remove"} =>
            /\ Untouched(failedPrep, failedDir, failedPrep', failedDir')
            /\ Untouched(failedGen, failedDir, failedGen', failedDir')
       /\ last'.seen \in {"prepare_add", "prepare_remove"} =>
            /\ Untouched(failedExec, failedDir, failedExec', failedDir')
            /\ Untouched(failedGen, failedDir, failedGen', failedDir')
       /\ last'.seen \in {"generate_add", "generate_remove"} =>
            /\ Untouched(failedExec, failedDir, failedExec', failedDir')
            /\ Untouched(failedPrep, failedDir, failedPrep', failedDir')]_vars

\* C22's case: the execute stage removed an experiment from its registry while
\* the prepare registry listed it, and after the removal the experiment is in
\* the prepare registry and not in the execute registry.
C22_Witness ==
    /\ last.seen = "execute_remove"
    /\ last.exp = EA
    /\ last.inReg
    /\ OnDisk(failedPrep, failedDir)
    /\ EA \in Range(load_failed_experiments(failedPrep))
    /\ EA \notin Range(get_failed_experiments_list(failedExec))
    /\ OnDisk(failedGen, failedDir)

----------------------------------------------------------------------------
\* The weighted sum of a result record (generateResults.py).  A text is the
\* sequence of its characters; a character outside ASCII is written by its
\* Unicode name.  A probability is a number of hundredths.

\* Characters str.strip() removes.
WhiteSpace == {" ", "\n", "\t"}

\* str.strip()
RECURSIVE lstrip(_)
lstrip(text) ==
    IF text # <<>> /\ Head(text) \in WhiteSpace THEN lstrip(Tail(text)) ELSE text

RECURSIVE rstrip(_)
rstrip(text) ==
    IF text # <<>> /\ text[Len(text)] \in WhiteSpace
    THEN rstrip(SubSeq(text, 1, Len(text) - 1))
    ELSE text

strip(text) == rstrip(lstrip(text))

\* Characters with a decimal digit value, which int() accepts: the ASCII
\* digits and the digits of other scripts.
DecimalDigits ==
    {"0", "1", "2", "3", "4", "5", "6", "7", "8", "9", "FULLWIDTH DIGIT THREE"}

\* Characters str.isdigit() accepts and int() rejects with ValueError.
OtherDigits == {"SUPERSCRIPT TWO"}

\* str.isdigit(): the text is not empty and all its characters are digits.
isdigit(text) ==
    /\ text # <<>>
    /\ \A i \in DOMAIN text : text[i] \in DecimalDigits \cup OtherDigits

\* int() of one decimal digit.
int(c) ==
    CASE c = "0" -> 0
      [] c = "1" -> 1
      [] c = "2" -> 2
      [] c \in {"3", "FULLWIDTH DIGIT THREE"} -> 3
      [] c = "4" -> 4
      [] c = "5" -> 5
      [] c = "6" -> 6
      [] c = "7" -> 7
      [] c = "8" -> 8
      [] c = "9" -> 9

\* np.exp of the float of a log-probability, in hundredths.
exp(x) ==
    CASE x = "log(0.25)" -> 25
      [] x = "log(0.5)" -> 50
      [] x = "log(0.9)" -> 90

\* float(logprob_value): a float is itself, a str is parsed or raises
\* ValueError, None raises TypeError.
float(logprob_value) ==
    IF logprob_value.type = "float" THEN [raised |-> "none", x |-> logprob_value.v]
    ELSE IF logprob_value.type = "str"
    THEN IF logprob_value.v \in {"log(0.25)", "log(0.5)", "log(0.9)"}
         THEN [raised |-> "none", x |-> logprob_value.v]
         ELSE [raised |-> "ValueError", x |-> logprob_value.v]
    ELSE [raised |-> "TypeError", x |-> logprob_value.v]

\* Faulty variant: every digit is taken for a label.
IsLabel_anyDigit(token_value) == 0 <= token_value /\ token_value <= 9

\* 1 <= token_value <= 7
IsLabel(token_value) == 1 <= token_value /\ token_value <= 7

\* Faulty variant: a label counts at each of its occurrences.
Unseen_always(token_value, seen_numbers) == TRUE

\* token_value not in seen_numbers
Unseen(token_value, seen_numbers) == token_value \notin seen_numbers

\* One turn of the loop over the alternatives: the running sum and the set
\* of seen numbers after it, or the exception that leaves the function.
\* KeyError and ValueError are caught and the loop continues.
LoopBody(top_logprob, sum, seen_numbers) ==
    LET continue == [raised |-> "none", sum |-> sum, seen |-> seen_numbers]
    IN  IF "token" \notin top_logprob.keys THEN continue
        ELSE LET token_str == strip(top_logprob.token)
             IN  IF ~(isdigit(token_str) /\ Len(token_str) = 1) THEN continue
                 ELSE IF token_str[1] \notin DecimalDigits THEN continue
                 ELSE LET token_value == int(token_str[1])
                      IN  IF ~(IsLabel(token_value) /\ Unseen(token_value, seen_numbers))
                          THEN continue
                          ELSE IF "logprob" \notin top_logprob.keys THEN continue
                          ELSE LET f == float(top_logprob.logprob)
                               IN  IF f.raised = "ValueError" THEN continue
                                   ELSE IF f.raised = "TypeError"
                                   THEN [raised |-> "TypeError", sum |-> sum,
                                         seen |-> seen_numbers]
                                   ELSE [raised |-> "none",
                                         sum |-> sum + token_value * exp(f.x),
                                         seen |-> seen_numbers \cup {token_value}]

RECURSIVE Loop(_, _, _)
Loop(list, sum, seen_numbers) ==
    IF list = <<>> THEN [raised |-> "none", value |-> sum]
    ELSE LET turn == LoopBody(Head(list), sum, seen_numbers)
         IN  IF turn.raised # "none"
             THEN [raised |-> turn.raised, value |-> 0]
             ELSE Loop(Tail(list), turn.sum, turn.seen)

\* calculate_weighted_sum_1_to_7: iterating over None raises TypeError.
calculate_weighted_sum_1_to_7(top_logprobs_list) ==
    IF top_logprobs_list.type # "list"
    THEN [raised |-> "TypeError", value |-> 0]
    ELSE Loop(top_logprobs_list.items, 0, {})

\* first_token_logprobs.get('top_logprobs', [])
get_top_logprobs(first_token) ==
    IF "top_logprobs" \in first_token.keys
    THEN first_token.top_logprobs
    ELSE [type |-> "list", items |-> <<>>]

----------------------------------------------------------------------------
\* The scoring on its own: a result record is read and its first token is
\* scored.

\* The most alternatives of a first token.
MaxAlternatives == 3

Float(x) == [type |-> "float", v |-> x]

Alternative(token, logprob) ==
    [keys |-> {"token", "logprob"}, token |-> token, logprob |-> logprob]

\* The alternatives a first token can list: labels, a label with white space
\* around it, other digits, other texts, and entries that lack a key or
\* carry a log-probability that is no float.
Alternatives ==
    {Alternative(<<"3">>, Float("log(0.5)")),
     Alternative(<<"3">>, Float("log(0.9)")),
     Alternative(<<"5">>, Float("log(0.25)")),
     Alternative(<<"7">>, [type |-> "str", v |-> "log(0.5)"]),
     Alternative(<<" ", "3">>, Float("log(0.25)")),
     Alternative(<<"FULLWIDTH DIGIT THREE">>, Float("log(0.25)")),
     Alternative(<<"SUPERSCRIPT TWO">>, Float("log(0.5)")),
     Alternative(<<"8">>, Float("log(0.5)")),
     Alternative(<<"1", "2">>, Float("log(0.5)")),
     Alternative(<<"x">>, Float("log(0.9)")),
     [keys |-> {"logprob"}, token |-> <<>>, logprob |-> Float("log(0.5)")],
     [keys |-> {"token"}, token |-> <<"5">>, logprob |-> Float("log(0.5)")],
     Alternative(<<"5">>, [type |-> "str", v |-> "abc"]),
     Alternative(<<"5">>, [type |-> "NoneType", v |-> "None"])}

AlternativeLists == UNION {[1..n -> Alternatives] : n \in 0..MaxAlternatives}

\* The first tokens a result record can hold: with a list of alternatives,
\* with null for it, or without the key.
FirstTokens ==
    {[keys |-> {"top_logprobs"}, top_logprobs |-> [type |-> "list", items |-> l]] :
        l \in AlternativeLists}
    \cup {[keys |-> {"top_logprobs"},
           top_logprobs |-> [type |-> "NoneType", items |-> <<>>]],
          NoFirstToken}

InitScore ==
    /\ InitStages
    /\ \A f \in BatchFolder : content[f] = <<1, 1>>
    /\ first_token_logprobs \in FirstTokens
    /\ weighted_sum = NotScored
    /\ prompt_template = <<>>
    /\ word_list = <<>>
    /\ chunk_size = 1
    /\ tasks = <<>>
    /\ batches = <<>>
    /\ results_files = {}
    /\ combined_data = NoOutput

\* openAI_processing, lines 100 to 103.
Score ==
    /\ weighted_sum = NotScored
    /\ weighted_sum' = calculate_weighted_sum_1_to_7(get_top_logprobs(first_token_logprobs))
    /\ UNCHANGED <<stateVars, first_token_logprobs, prompt_template, word_list,
                   chunk_size, tasks, batches, results_files, combined_data>>

ScoreSpec == InitScore /\ [][Score]_vars

\* The scored record's list of alternatives.
Scored == get_top_logprobs(first_token_logprobs).items

\* Every alternative has a token and a log-probability that float() takes.
WellFormed(list) ==
    \A i \in DOMAIN list :
        /\ list[i].keys = {"token", "logprob"}
        /\ float(list[i].logprob).raised = "none"

\* The label an alternative stands for, 0 when it stands for none.
LabelOf(top_logprob) ==
    LET t == strip(top_logprob.token)
    IN  IF Len(t) = 1 /\ t[1] \in DecimalDigits /\ int(t[1]) \in 1..7
        THEN int(t[1])
        ELSE 0

\* C23: the weighted sum of a list of well-formed alternatives is the sum,
\* over the labels 1 to 7 that occur in it, of the label times the
\* probability of its first occurrence; later occurrences add nothing.
C23_FirstOccurrenceOnly ==
    (weighted_sum # NotScored /\ "top_logprobs" \in first_token_logprobs.keys
        /\ first_token_logprobs.top_logprobs.type = "list" /\ WellFormed(Scored))
    => LET list == Scored
           Occ(d) == {i \in DOMAIN list : LabelOf(list[i]) = d}
           First(d) == CHOOSE i \in Occ(d) : \A k \in Occ(d) : i <= k
           Term(d) == IF Occ(d) = {} THEN 0
                      ELSE d * exp(float(list[First(d)].logprob).x)
       IN  /\ weighted_sum.raised = "none"
           /\ weighted_sum.value = Term(1) + Term(2) + Term(3) + Term(4) + Term(5)
                                       + Term(6) + Term(7)

\* C23's case: 3 with 0.5, 3 with 0.9, 5 with 0.25 gave 2.75.
C23_Witness ==
    /\ Scored = <<Alternative(<<"3">>, Float("log(0.5)")),
                  Alternative(<<"3">>, Float("log(0.9)")),
                  Alternative(<<"5">>, Float("log(0.25)"))>>
    /\ weighted_sum = [raised |-> "none", value |-> 275]

\* The texts that are exactly one of the characters "1" to "7".
ExactLabels == {<<"1">>, <<"2">>, <<"3">>, <<"4">>, <<"5">>, <<"6">>, <<"7">>}

\* A list of alternatives was scored and its first alternative has a token.
ScoredWithToken ==
    /\ weighted_sum # NotScored
    /\ "top_logprobs" \in first_token_logprobs.keys
    /\ first_token_logprobs.top_logprobs.type = "list"
    /\ Scored # <<>>
    /\ "token" \in Head(Scored).keys

\* The result is the one of the list without its first alternative: the
\* first alternative added nothing and marked no label as counted.
HeadAddsNothing ==
    weighted_sum = calculate_weighted_sum_1_to_7([type |-> "list", items |-> Tail(Scored)])

\* C24 as stated: an alternative whose token is not exactly one of the
\* characters "1" to "7" adds nothing to the weighted sum and marks no label
\* as counted.
C24_ExactLabelOnly ==
    (ScoredWithToken /\ Head(Scored).token \notin ExactLabels) => HeadAddsNothing

\* C24 as amended: an alternative whose token, with the white space around it
\* stripped, is not a single decimal digit of value 1 to 7 adds nothing to
\* the weighted sum and marks no label as counted.
C24_StrippedLabelOnly ==
    (ScoredWithToken /\ LabelOf(Head(Scored)) = 0) => HeadAddsNothing

\* C24's case: an 8 came first and added nothing, the 3 after it counted.
C24_Witness ==
    /\ Scored = <<Alternative(<<"8">>, Float("log(0.5)")),
                  Alternative(<<"3">>, Float("log(0.5)"))>>
    /\ weighted_sum = [raised |-> "none", value |-> 150]

\* C25 as stated: the weighted-sum computation raises for no list of
\* alternatives, absent, null or with malformed entries.
C25_NeverRaises == weighted_sum.raised \in {"not called", "none"}

----------------------------------------------------------------------------
\* The task builder (prepare_experiment.py).  A text is a sequence of pieces:
\* the characters "[", "]", ".", " ", the quote, the new line, and pieces of
\* other characters.  "La expresion es:" stands for the phrase of the prompt
\* that extract_word_input looks for.

Minimum(S) == CHOOSE x \in S : \A y \in S : x <= y

\* The position of the first "]" after position i, 0 when there is none.
FirstClose(text, i) ==
    LET closes == {j \in (i + 1)..Len(text) : text[j] = "]"}
    IN  IF closes = {} THEN 0 ELSE Minimum(closes)

\* \[([^\]]+)\] matches at position i: a "[", one or more characters other
\* than "]", and a "]".
SpanAt(text, i) == text[i] = "[" /\ FirstClose(text, i) >= i + 2

\* re.search(r'\[([^\]]+)\]', prompt_template): the leftmost match.
placeholder_match(text) ==
    LET starts == {i \in DOMAIN text : SpanAt(text, i)}
    IN  IF starts = {} THEN [found |-> FALSE, start |-> 0, end |-> 0]
        ELSE [found |-> TRUE, start |-> Minimum(starts),
              end |-> FirstClose(text, Minimum(starts))]

\* config.get('prompt_key', '[insertar expresión aquí]'), for a config.yaml
\* entry without prompt_key.
DefaultPromptKey == <<"[", "insertar expresion aqui", "]">>

\* The placeholder of a template.
prompt_key(template) ==
    LET m == placeholder_match(template)
    IN  IF m.found THEN SubSeq(template, m.start, m.end) ELSE DefaultPromptKey

\* Faulty variant: only the first occurrence is replaced (str.replace with count 1).
RECURSIVE replace_first(_, _, _)
replace_first(text, old, new) ==
    IF Len(text) < Len(old) THEN text
    ELSE IF SubSeq(text, 1, Len(old)) = old
    THEN new \o SubSeq(text, Len(old) + 1, Len(text))
    ELSE <<Head(text)>> \o replace_first(Tail(text), old, new)

\* str.replace(old, new): every occurrence of old, from the left, is replaced.
RECURSIVE replace(_, _, _)
replace(text, old, new) ==
    IF Len(text) < Len(old) THEN text
    ELSE IF SubSeq(text, 1, Len(old)) = old
    THEN new \o replace(SubSeq(text, Len(old) + 1, Len(text)), old, new)
    ELSE <<Head(text)>> \o replace(Tail(text), old, new)

\* str() of a number: its decimal digits.
RECURSIVE str(_)
str(n) ==
    LET digit == <<"0", "1", "2", "3", "4", "5", "6", "7", "8", "9">>[(n % 10) + 1]
    IN  IF n < 10 THEN <<digit>> ELSE str(n \div 10) \o <<digit>>

\* Faulty variant: the counter is left out of the id.
custom_id_noCounter(experiment_name, counter) == experiment_name \o <<"_task">>

\* f"{experiment_name}_task_{counter}"
custom_id(experiment_name, counter) == experiment_name \o <<"_task_">> \o str(counter)

\* create_openai_tasks: one task per word, counted from 1; the task keeps
\* its custom_id and the content of its one message.
create_openai_tasks(words, experiment_name, template) ==
    [counter \in 1..Len(words) |->
        [custom_id |-> custom_id(experiment_name, counter),
         content |-> replace(template, prompt_key(template), strip(words[counter]))]]

\* Faulty variant: a last chunk shorter than chunk_size is not written.
RECURSIVE task_chunks_fullOnly(_, _)
task_chunks_fullOnly(list, size) ==
    IF Len(list) < size THEN <<>>
    ELSE <<SubSeq(list, 1, size)>> \o task_chunks_fullOnly(SubSeq(list, size + 1, Len(list)), size)

\* tasks[i:i + chunk_size] for i in range(0, len(tasks), chunk_size)
RECURSIVE task_chunks(_, _)
task_chunks(list, size) ==
    IF list = <<>> THEN <<>>
    ELSE IF Len(list) <= size THEN <<list>>
    ELSE <<SubSeq(list, 1, size)>> \o task_chunks(SubSeq(list, size + 1, Len(list)), size)

\* f"{experiment_name}_batch_{index}_{date_string}.jsonl", the date being
\* the one of the call.
batch_name(experiment_name, index) == experiment_name \o <<"_batch_">> \o str(index)

\* create_batch_files: the files written, in index order, counted from 0.
create_batch_files(list, experiment_name, size) ==
    LET chunks == task_chunks(list, size)
    IN  [k \in 1..Len(chunks) |->
            [name |-> batch_name(experiment_name, k - 1), records |-> chunks[k]]]

----------------------------------------------------------------------------
\* The result extractor (generateResults.py).

\* 'La expresión es:' under re.IGNORECASE.
Phrases == {"La expresion es:", "la expresion es:", "LA EXPRESION ES:"}

\* The characters of '"\'""„' that str.strip(chars) removes.
Quotes == {"\"", "'"}

RECURSIVE lstripQuotes(_)
lstripQuotes(text) ==
    IF text # <<>> /\ Head(text) \in Quotes THEN lstripQuotes(Tail(text)) ELSE text

RECURSIVE rstripQuotes(_)
rstripQuotes(text) ==
    IF text # <<>> /\ text[Len(text)] \in Quotes
    THEN rstripQuotes(SubSeq(text, 1, Len(text) - 1))
    ELSE text

\* The ends of the group (.+?) that starts at position g: the positions of a
\* "." after g with no new line from g up to it.
GroupEnds(text, g) ==
    {e \in (g + 1)..Len(text) :
        text[e] = "." /\ \A i \in g..(e - 1) : text[i] # "\n"}

\* The white space \s* can take after position k: none, or a run that
\* starts just after k.
SpaceRuns(text, k) ==
    {n \in 0..(Len(text) - k) : \A i \in (k + 1)..(k + n) : text[i] \in WhiteSpace}

\* The pattern matches with the phrase at position k and n characters of
\* white space after it.
MatchesAt(text, k, n) ==
    /\ text[k] \in Phrases
    /\ n \in SpaceRuns(text, k)
    /\ GroupEnds(text, k + n + 1) # {}

\* extract_word_input: re.search takes the leftmost phrase at which the
\* pattern matches, the longest run of white space that lets it match, and
\* the shortest group; the group is stripped of white space, then of quotes.
extract_word_input(text) ==
    LET at == {k \in DOMAIN text : \E n \in 0..Len(text) : MatchesAt(text, k, n)}
    IN  IF at = {} THEN [found |-> FALSE, text |-> <<>>]
        ELSE LET k == Minimum(at)
                 n == CHOOSE n \in SpaceRuns(text, k) :
                          /\ MatchesAt(text, k, n)
                          /\ \A m \in SpaceRuns(text, k) : MatchesAt(text, k, m) => m <= n
                 g == k + n + 1
                 group == SubSeq(text, g, Minimum(GroupEnds(text, g)) - 1)
             IN  [found |-> TRUE, text |-> rstripQuotes(lstripQuotes(strip(group)))]

\* A name contains another: the glob pattern f"*{experiment_name}*.jsonl".
Contains(name, part) ==
    \E i \in 0..(Len(name) - Len(part)) : SubSeq(name, i + 1, i + Len(part)) = part

\* glob.glob over the files of a folder.
glob(folder, experiment_name) ==
    {f \in folder : Contains(f.name, experiment_name)}

\* The first token of the responses of the model's results files.
FirstToken ==
    [keys |-> {"top_logprobs"},
     top_logprobs |-> [type |-> "list",
                       items |-> <<Alternative(<<"3">>, Float("log(0.5)"))>>]]

\* openAI_processing: the rows of the result records whose custom_id is in the
\* batch file and whose prompt yields an expression, in the order of the
\* results file.
RECURSIVE openAI_processing(_, _)
openAI_processing(results_content_file, batches_content_file) ==
    IF results_content_file = <<>> THEN <<>>
    ELSE LET entry == Head(results_content_file)
             rest == openAI_processing(Tail(results_content_file), batches_content_file)
             found == {i \in DOMAIN batches_content_file :
                          batches_content_file[i].custom_id = entry.custom_id}
         IN  IF found = {} THEN rest
             ELSE LET task == batches_content_file[CHOOSE i \in found : \A k \in found : k <= i]
                      word_input == extract_word_input(task.content)
                  IN  IF ~word_input.found \/ word_input.text = <<>> THEN rest
                      ELSE <<[expression |-> word_input.text,
                              familiarity |-> entry.content,
                              weighted_sum |->
                                  calculate_weighted_sum_1_to_7(
                                      get_top_logprobs(entry.first_token)).value]>>
                           \o rest

----------------------------------------------------------------------------
\* The task builder and the result extractor at work on one dataset and one
\* prompt file.

\* The most words of a dataset.
MaxWords == 3

\* The largest chunk_size.
MaxChunk == 2

\* "La expresión es: [palabra]."
PhraseTemplate == <<"La expresion es:", " ", "[", "palabra", "]", ".">>

\* Prompt files: the phrase with its placeholder; a second, different span
\* after it; the same span twice; no span; a second span that holds the text
\* of the first; an empty pair of brackets before the span.
Templates ==
    {PhraseTemplate,
     <<"La expresion es:", " ", "[", "palabra", "]", ".", " ", "[", "nota", "]">>,
     <<"[", "palabra", "]", " ", "La expresion es:", " ", "[", "palabra", "]", ".">>,
     <<"La expresion es:", " ", "x", ".">>,
     <<"[", "a", "]", " ", "[", "[", "a", "]", ".">>,
     <<"[", "]", " ", "[", "palabra", "]">>}

\* Expressions of a dataset: "correr", "tomar el pelo", "Sr. L".
Words ==
    {<<"correr">>, <<"tomar", " ", "el", " ", "pelo">>, <<"Sr", ".", " ", "L">>}

WordLists == UNION {[1..n -> Words] : n \in 0..MaxWords}

InitTasks ==
    /\ InitStages
    /\ \A f \in BatchFolder : content[f] = <<1, 1>>
    /\ first_token_logprobs = NoFirstToken
    /\ weighted_sum = NotScored
    /\ prompt_template \in Templates
    /\ word_list \in WordLists
    /\ chunk_size \in 1..MaxChunk
    /\ tasks = <<>>
    /\ batches = <<>>
    /\ results_files = {}
    /\ combined_data = NoOutput

\* prepare_experiment.py for one experiment that was not prepared yet:
\* process_experiment builds the tasks and writes the batch files, and
\* update_failed_experiments records the outcome.
ProcessExperiment(e) ==
    /\ \A i \in DOMAIN batches : batches[i].name # batch_name(e, 0)
    /\ tasks' = create_openai_tasks(word_list, e, prompt_template)
    /\ batches' = batches \o create_batch_files(tasks', e, chunk_size)
    /\ LET out == update_failed_experiments(e, tasks' # <<>>, failedPrep, TRUE,
                                            failedExec.exists \/ failedGen.exists)
       IN  /\ failedPrep' = out.reg
           /\ failedDir' = out.dir
    /\ last' = [NoLast EXCEPT !.exp = e,
                              !.seen = IF tasks' # <<>> THEN "prepared"
                                       ELSE "prepare_failed"]
    /\ UNCHANGED <<content, trackFile, trackReadable, failedExec, remote, nextJob,
                   results, pc, prefixes, cur, toSend, okFlag, queue, kills, failedGen,
                   config>>
    /\ UNCHANGED <<first_token_logprobs, weighted_sum, prompt_template, word_list,
                   chunk_size, results_files, combined_data>>

\* f"{prefix}_results_{batch_id}_{date_string}.jsonl"
results_name(prefix, batch_id) == prefix \o <<"_results_">> \o str(batch_id)

\* The output file of a batch: a response for each of its requests.
Responses(records) ==
    [i \in DOMAIN records |->
        [custom_id |-> records[i].custom_id, content |-> "4", first_token |-> FirstToken]]

\* The execute stage, run for the experiment of batch file k, downloads the
\* output of the file's job.
Download(k) ==
    /\ k \in DOMAIN batches
    /\ LET prefix == CHOOSE e \in Experiments :
                         StartsWith(batches[k].name, e \o <<"_batch_">>)
           name == results_name(prefix, k)
       IN  /\ \A f \in results_files : f.name # name
           /\ results_files' =
                  results_files \cup {[name |-> name, records |-> Responses(batches[k].records)]}
    /\ last' = [NoLast EXCEPT !.job = k, !.seen = "completed", !.got = TRUE]
    /\ UNCHANGED <<content, trackFile, trackReadable, failedExec, remote, nextJob,
                   results, pc, prefixes, cur, toSend, okFlag, queue, kills, failedPrep,
                   failedGen, failedDir, config>>
    /\ UNCHANGED <<first_token_logprobs, weighted_sum, prompt_template, word_list,
                   chunk_size, tasks, batches, combined_data>>

\* generateResults.py <experiment_name>: process_single_experiment.  glob
\* lists the files in the order the file system gives them, so matches[0] is
\* any of the matching files.
Generate(e) ==
    /\ failedDir' = TRUE
    /\ LET is_in_failed_list == e \in Range(get_failed_experiments(failedGen))
           matches_batches == glob(Range(batches), e)
           matches_results == glob(results_files, e)
           Failed ==
               /\ failedGen' = IF is_in_failed_list THEN failedGen
                               ELSE add_failed_experiment(failedGen, e)
               /\ combined_data' = combined_data
               /\ last' = [NoLast EXCEPT !.exp = e, !.seen = "generate_failed",
                                         !.inReg = is_in_failed_list]
       IN  IF matches_batches = {} \/ matches_results = {} THEN Failed
           ELSE \E batches_file \in matches_batches : \E results_file \in matches_results :
                   LET rows == openAI_processing(results_file.records,
                                                 batches_file.records)
                   IN  IF rows = <<>> THEN Failed
                       ELSE /\ combined_data' =
                                   [written |-> TRUE, experiment |-> e, rows |-> rows]
                            /\ failedGen' = IF is_in_failed_list
                                            THEN remove_failed_experiment(failedGen, e)
                                            ELSE failedGen
                            /\ last' = [NoLast EXCEPT !.exp = e, !.seen = "generated",
                                                      !.inReg = is_in_failed_list]
    /\ UNCHANGED <<content, trackFile, trackReadable, failedExec, remote, nextJob,
                   results, pc, prefixes, cur, toSend, okFlag, queue, kills, failedPrep,
                   config>>
    /\ UNCHANGED <<first_token_logprobs, weighted_sum, prompt_template, word_list,
                   chunk_size, tasks, batches, results_files>>

TaskSpec == InitTasks /\ [][\E e \in Experiments : ProcessExperiment(e)]_vars

NextExtract ==
    \/ \E e \in Experiments : ProcessExperiment(e)
    \/ \E k \in 1..(Cardinality(Experiments) * MaxWords) : Download(k)
    \/ \E e \in Experiments : Generate(e)

\* The runs that reach the result extractor: the prompt file is the phrase
\* with its placeholder or a prompt without a placeholder, and the dataset
\* holds two words at most.
InitExtract ==
    /\ InitTasks
    /\ prompt_template \in {PhraseTemplate, <<"La expresion es:", " ", "x", ".">>}
    /\ Len(word_list) <= 2

ExtractSpec == InitExtract /\ [][NextExtract]_vars

\* C26 as stated: with the template "La expresión es: [palabra].", the
\* expression extracted from the prompt rendered for a word of the word list
\* is that word.
C26_RenderThenExtract ==
    prompt_template = PhraseTemplate =>
        \A i \in DOMAIN tasks :
            extract_word_input(tasks[i].content) = [found |-> TRUE, text |-> word_list[i]]

\* The template holds more than one bracketed span: another span starts
\* after the end of the first.
SeveralSpans(template) ==
    LET m == placeholder_match(template)
    IN  m.found /\ \E i \in (m.end + 1)..Len(template) : SpanAt(template, i)

\* The positions of the template at which the text old starts.
OccurrencesOf(template, old) ==
    {q \in 1..(Len(template) - Len(old) + 1) :
        SubSeq(template, q, q + Len(old) - 1) = old}

\* text is the template with the text old replaced by word at the positions
\* occ and with everything else in its place, character by character.
IsRendering(text, template, occ, old, word) ==
    LET grow == Len(word) - Len(old)
        shift(i) == Cardinality({q \in occ : q < i}) * grow
        replaced(i) == \E q \in occ : q <= i /\ i < q + Len(old)
    IN  /\ Len(text) = Len(template) + Cardinality(occ) * grow
        /\ \A i \in DOMAIN template : ~replaced(i) => text[i + shift(i)] = template[i]
        /\ \A q \in occ : SubSeq(text, q + shift(q), q + shift(q) + Len(word) - 1) = word

\* C27 as stated: when the template holds more than one bracketed span, the
\* rendered prompt is the template with the first span replaced by the word
\* and every later span left as it is.
C27_OnlyFirstSpanReplaced ==
    SeveralSpans(prompt_template) =>
        \A i \in DOMAIN tasks :
            IsRendering(tasks[i].content, prompt_template,
                        {placeholder_match(prompt_template).start},
                        prompt_key(prompt_template), word_list[i])

\* C27 as amended: when the template holds more than one bracketed span, the
\* first span is the placeholder; the rendered prompt is the template with
\* the word in the place of the first span and of every later occurrence of
\* the same text, and every other text, bracketed or not, left as it is.
C27_EveryOccurrenceReplaced ==
    SeveralSpans(prompt_template) =>
        \A i \in DOMAIN tasks :
            IsRendering(tasks[i].content, prompt_template,
                        OccurrencesOf(prompt_template, prompt_key(prompt_template)),
                        prompt_key(prompt_template), word_list[i])

\* C27's case: a prompt with [palabra] and then [nota] was rendered for a
\* word of several words, and [nota] is in the rendered prompt.
C27_Witness ==
    /\ prompt_template =
           <<"La expresion es:", " ", "[", "palabra", "]", ".", " ", "[", "nota", "]">>
    /\ word_list = <<<<"tomar", " ", "el", " ", "pelo">>>>
    /\ Len(tasks) = 1
    /\ tasks[1].content =
           <<"La expresion es:", " ", "tomar", " ", "el", " ", "pelo", ".", " ",
             "[", "nota", "]">>

\* C28: in every batch file the prepare stage wrote, no two task records
\* have the same custom_id.
C28_UniqueCustomIds ==
    \A k \in DOMAIN batches :
        \A i, j \in DOMAIN batches[k].records :
            batches[k].records[i].custom_id = batches[k].records[j].custom_id => i = j

\* C28's case: a batch file of two tasks was written.
C28_Witness ==
    /\ batches # <<>>
    /\ Len(batches[1].records) = 2
    /\ batches[1].records[1].custom_id = EA \o <<"_task_", "1">>
    /\ batches[1].records[2].custom_id = EA \o <<"_task_", "2">>

\* The batch files of the experiment that was prepared last, in index order.
WrittenLast ==
    LET OfLast(f) == StartsWith(f.name, last.exp \o <<"_batch_">>)
    IN  SelectSeq(batches, OfLast)

\* The task records of a list of files, one file after the other.
RECURSIVE AllRecords(_)
AllRecords(files) ==
    IF files = <<>> THEN <<>> ELSE Head(files).records \o AllRecords(Tail(files))

\* C29: the task builder returns one task per word, in word order, and the
\* batch files written for the experiment, one after the other in index
\* order, hold the task list; every file holds between 1 and chunk_size
\* tasks.
C29_FilesPartitionTasks ==
    last.seen \in {"prepared", "prepare_failed"} =>
        /\ Len(tasks) = Len(word_list)
        /\ \A i \in DOMAIN tasks : tasks[i].custom_id = last.exp \o <<"_task_">> \o str(i)
        /\ AllRecords(WrittenLast) = tasks
        /\ \A k \in DOMAIN WrittenLast :
               /\ WrittenLast[k].name = last.exp \o <<"_batch_">> \o str(k - 1)
               /\ 1 <= Len(WrittenLast[k].records)
               /\ Len(WrittenLast[k].records) <= chunk_size

\* C29's case: three words were chunked by two, into a file of two tasks and
\* a file of one.
C29_Witness ==
    /\ last.seen = "prepared"
    /\ Len(word_list) = 3
    /\ chunk_size = 2
    /\ Len(WrittenLast) = 2
    /\ Len(WrittenLast[1].records) = 2
    /\ Len(WrittenLast[2].records) = 1
    /\ WrittenLast[2].records[1] = tasks[3]

\* The task records of an experiment, over all the batch files.
ExperimentTasks(e) ==
    UNION {{r \in Range(batches[k].records) : StartsWith(r.custom_id, e \o <<"_task_">>)} :
              k \in DOMAIN batches}

\* A results file holds a record with the task's custom_id.
HasResult(task) ==
    \E f \in results_files : \E i \in DOMAIN f.records :
        f.records[i].custom_id = task.custom_id

\* The task's prompt yields an expression.
Extractable(task) ==
    LET word_input == extract_word_input(task.content)
    IN  word_input.found /\ word_input.text # <<>>

\* The files glob finds for the experiment are the experiment's own: no
\* other experiment's name contains its name.
OwnFilesOnly(e) ==
    /\ \A f \in glob(Range(batches), e) : StartsWith(f.name, e \o <<"_batch_">>)
    /\ \A f \in glob(results_files, e) : StartsWith(f.name, e \o <<"_results_">>)

\* C30 as stated: the output written for an experiment holds one row for
\* each of the experiment's tasks, over its one or more batch files, that has
\* a result record with the same custom_id in a results file and an
\* extractable expression.
C30_RowPerTask ==
    (last.seen = "generated" /\ OwnFilesOnly(last.exp)) =>
        LET expected == {t \in ExperimentTasks(last.exp) : HasResult(t) /\ Extractable(t)}
        IN  /\ Len(combined_data.rows) = Cardinality(expected)
            /\ \A t \in expected :
                   \E i \in DOMAIN combined_data.rows :
                       combined_data.rows[i].expression = extract_word_input(t.content).text

----------------------------------------------------------------------------
\* The download of a completed job's output (lines 306-325) over the passes
\* of the polling loop.

\* Job j has a record in the table after the step.
TrackedAfter(j) == \E i \in DOMAIN RowsAfter : RowsAfter[i].batch_id = j

\* The step is the visit of a row by the pass (it records the row in last).
VisitsRow == last' # last /\ last'.job \in JobIds

\* The step is a visit in which fetching or writing the output raised.
DownloadFails == VisitsRow /\ last'.seen = "completed" /\ ~last'.got

\* The step is the start of a pass.
PassBegins == pc = "loop" /\ pc' # "loop"

\* C31 as stated, the part that fails: every later pass attempts the download
\* again, that is, every visit of a row stored as completed (its download
\* failed in an earlier pass) gets to the download.
C31_RetriedInEveryPass ==
    [][(VisitsRow /\ last'.was = "completed") => last'.seen = "completed"]_vars

\* C31 as amended: the row of a job that is completed remotely leaves the
\* table only in a step that has its output in a results file; a visit in
\* which fetching or writing the output raised leaves the row in the table
\* with status completed stored and the failed registry as it was; every
\* later pass works on the row, and attempts the download whenever its status
\* query succeeds; and the row is visited again until the download succeeds.
C31_RetriedWhenQueried ==
    /\ [][\A j \in JobIds :
            (Tracked(j) /\ ~TrackedAfter(j) /\ remote[j] = "completed")
                => \E r \in results' : r.batch_id = j]_vars
    /\ [][DownloadFails =>
            /\ \E i \in DOMAIN RowsAfter :
                  /\ RowsAfter[i].batch_id = last'.job
                  /\ RowsAfter[i].status = "completed"
            /\ failedExec' = failedExec
            /\ results' = results]_vars
    /\ [][PassBegins =>
            \A r \in Range(Rows) : r.status = "completed" => r \in Range(queue')]_vars
    /\ [][(VisitsRow /\ last'.was = "completed" /\ last'.seen # "error")
            => last'.seen = "completed"]_vars
    /\ \A j \in JobIds :
          (last.job = j /\ last.seen = "completed" /\ ~last.got)
              ~> (RowDue(j) /\ last.job # j)

\* C31's case: a pass downloaded the output of a job whose download had
\* failed in an earlier pass; the row is gone and the output is in a results
\* file.
C31_Witness ==
    /\ last.seen = "completed"
    /\ last.was = "completed"
    /\ last.got
    /\ ~Tracked(last.job)
    /\ \E r \in results : r.batch_id = last.job

----------------------------------------------------------------------------
\* One execute run of an experiment with two batch files, from an empty
\* experiment folder to the end of its polling loop.

\* python3 execute_experiment.py a_prompt <path>, the first command run in the folder.
StartOnce ==
    /\ pc = "idle"
    /\ StartSingle(EA)

NextOneRun ==
    \/ StartOnce
    \/ Submit
    \/ Poll
    \/ \E j \in JobIds : RemoteFinish(j)

OneRunSpec == InitLoop /\ [][NextOneRun]_vars

\* C32: when the polling loop has ended, the experiment is in the failed
\* registry if one of its jobs ended failed or cancelled (every job of the
\* run is the experiment's, and a row leaves the table only by a visit of
\* the pass that saw its job completed, failed or cancelled).
C32_FailedBatchListedAtEnd ==
    (pc = "done" /\ \E j \in JobIds : remote[j] \in {"failed", "cancelled"})
        => EA \in Range(failedExec.lines)

\* C33: when a pass has run to its end, no record of the table is stored as
\* failed, cancelled or downloaded, and a record is stored as completed only
\* if no download of its output has succeeded (no results file holds it).
C33_PassLeavesNoFinishedRow ==
    pc = "check" =>
        LET df == Rows
        IN  \A i \in DOMAIN df :
                /\ df[i].status \notin {"failed", "cancelled", "downloaded"}
                /\ df[i].status = "completed" =>
                       ~\E r \in results : r.batch_id = df[i].batch_id

----------------------------------------------------------------------------
\* Runs of single experiments, one of them without a file in the batches
\* folder, with uploads and job creations that may fail.

\* An experiment with no batch file.
EN == <<"b", "_prompt">>

NextTrackId ==
    \/ \E e \in Experiments \cup {EN} : StartSingle(e)
    \/ Submit
    \/ Poll
    \/ \E j \in JobIds : RemoteFinish(j)

TrackIdSpec == InitLoop /\ [][NextTrackId]_vars

\* C34: every record of the table carries the id of a job the API created,
\* never a marker id; a record is added only in the step that creates the
\* job whose id it carries; and a file whose upload or job creation failed,
\* or a run that found no batch file, leaves the table as it was.
C34_OnlyCreatedJobsTracked ==
    /\ [](\A i \in DOMAIN Rows :
             /\ Rows[i].batch_id \notin {ERROR_SENDING, NO_BATCH_FILES}
             /\ Rows[i].batch_id \in JobIds
             /\ remote[Rows[i].batch_id] # "none")
    /\ [][Len(RowsAfter) > Len(Rows) =>
             /\ remote[nextJob] = "none"
             /\ remote'[nextJob] # "none"
             /\ RowsAfter = Append(Rows, RowsAfter[Len(RowsAfter)])
             /\ RowsAfter[Len(RowsAfter)].batch_id = nextJob]_vars
    /\ [][(toSend' # toSend /\ nextJob' = nextJob) => RowsAfter = Rows]_vars
    /\ [][(Stopped /\ pc' = "idle") => trackFile' = trackFile]_vars

\* C34's case: of the two files of an experiment one was sent and is
\* tracked, the other's upload or job creation failed; and a run of the
\* experiment without batch files has put it in the failed registry.
C34_Witness ==
    /\ last.seen = "send_failed"
    /\ Len(Rows) = 1
    /\ Rows[1].batch_id = 1
    /\ nextJob = 2
    /\ toSend = {}
    /\ EN \in Range(failedExec.lines)

----------------------------------------------------------------------------
\* One execute run over a list of experiments ('failed' or 'all' mode) in a
\* folder with no tracking file, where the name of one experiment (a_prompt)
\* starts the names of the other's batch files (a_prompt1_batch_0).

\* The folder before the run: the failed registry lists experiments of
\* earlier runs, in any order, or does not exist.
InitListRun ==
    /\ \E S \in SUBSET Experiments : \E lines \in Orderings(S) :
          failedExec = IF lines = <<>> THEN NoRegistry
                       ELSE [exists |-> TRUE, lines |-> lines]
    /\ failedDir = failedExec.exists
    /\ content = [f \in BatchFolder |-> <<1, 1>>]
    /\ trackFile = NoTrackingFile
    /\ trackReadable = TRUE
    /\ remote = [j \in JobIds |-> "none"]
    /\ nextJob = 1
    /\ results = {}
    /\ pc = "idle"
    /\ prefixes = <<>>
    /\ cur = NoName
    /\ toSend = {}
    /\ okFlag = FALSE
    /\ queue = <<>>
    /\ last = NoLast
    /\ kills = 0
    /\ failedPrep = NoRegistry
    /\ failedGen = NoRegistry
    /\ config = ConfigExperiments
    /\ NoData

\* The run: python3 execute_experiment.py failed|all <path>, once.
StartList ==
    /\ pc = "idle"
    /\ StartFailed \/ StartAll

NextListRun ==
    \/ StartList
    \/ Submit
    \/ Poll
    \/ \E j \in JobIds : RemoteFinish(j)

ListRunSpec == InitListRun /\ [][NextListRun]_vars

\* C35: in the submission phase of the run no batch file has two records:
\* each file was sent at most once and is tracked under one experiment name.
C35_FileSentOnce ==
    pc = "submit" =>
        LET df == Rows
        IN  \A i, k \in DOMAIN df : df[i].batch_file = df[k].batch_file => i = k

----------------------------------------------------------------------------
\* The tracking store when pd.read_excel raises on the persisted file: a
\* saved frame, the file becoming unreadable, and one add, update or remove.

\* The persisted file can no longer be read (pd.read_excel raises on it);
\* its bytes stay as saved.
ReadBreaks ==
    /\ pc = "saved"
    /\ trackReadable
    /\ trackReadable' = FALSE
    /\ UNCHANGED <<content, trackFile, failedExec, remote, nextJob, results, pc,
                   prefixes, cur, toSend, okFlag, queue, last, kills>>
    /\ UNCHANGED <<stageVars, dataVars>>

\* add_batch_to_tracking on the saved file, for a new job.
AddSaved(e, f) ==
    /\ pc = "saved"
    /\ LET j == Len(queue) + 1
       IN  /\ trackFile' = add_batch_to_tracking(trackFile, trackReadable, e, f, j,
                                                 get_file_hash(f, content), j)
           /\ last' = [NoLast EXCEPT !.job = j, !.exp = e]
    /\ pc' = "added"
    /\ UNCHANGED <<content, trackReadable, failedExec, remote, nextJob, results,
                   prefixes, cur, toSend, okFlag, queue, kills>>
    /\ UNCHANGED <<stageVars, dataVars>>

NextUnreadable ==
    \/ \E e \in Experiments : \E f \in get_batches_for_experiment(e) :
          \E s \in {"submitted"} \cup RemoteStatuses : BuildFrame(e, f, s)
    \/ SaveFrame
    \/ ReadBreaks
    \/ \E e \in Experiments : \E f \in get_batches_for_experiment(e) : AddSaved(e, f)
    \/ \E j \in JobIds : \E s \in RemoteStatuses : UpdateSaved(j, s)
    \/ \E j \in JobIds : RemoveSaved(j)

UnreadableSpec == InitLoop /\ [][NextUnreadable]_vars

\* The operation on the saved file is done.
Operated == pc \in {"added", "updated", "removed"}

\* Every record that was saved, other than those of the job the operation
\* names, is in the persisted table.
OthersKept ==
    \A i \in DOMAIN queue :
        queue[i].batch_id # last.job => \E k \in DOMAIN Rows : Rows[k] = queue[i]

\* C36: after an add, update or remove executed while the persisted table
\* exists and cannot be read, the persisted table holds every record it held
\* before, apart from the one the operation targets.
C36_UnreadableKeepsRecords ==
    (Operated /\ ~trackReadable) => (trackFile.exists /\ OthersKept)

====
